---- MODULE Spec2Model ----
(***************************************************************************)
(* Batch absolution analysis (batch_processor.py, batch_processor_llm.py): *)
(* a thread pool fetches one provider record per identifier (CPF), the     *)
(* collecting thread classifies each record as it completes, appends the   *)
(* result and reports progress.                                            *)
(*                                                                         *)
(* Text is modelled as a sequence of one-character strings, so that        *)
(* re.sub, lower(), upper(), strip() and the `in` substring test are       *)
(* computed character by character as Python computes them.                *)
(***************************************************************************)
EXTENDS Integers, Sequences, FiniteSets, Bags, TLC

\* ------------------------------------------------------------------ bounds
\* Longest identifier batch handed to process_batch.
MaxBatch == 2
\* Largest pool width (max_workers) tried.
MaxWorkers == 2
\* Most lawsuits in a person record handed to the classifiers.
MaxLawsuits == 2
\* longest result collection handed to get_summary_stats
MaxResults == 4

\* ------------------------------------------------------------------- text
UpperChars == <<"A","B","C","D","E","F","G","H","I","J","K","L","M","N","O","P","Q","R","S","T","U","V","W","X","Y","Z","Á","É","Í","Ó","Ú","Â","Ê","Ô","Ã","Õ","Ç">>
LowerChars == <<"a","b","c","d","e","f","g","h","i","j","k","l","m","n","o","p","q","r","s","t","u","v","w","x","y","z","á","é","í","ó","ú","â","ê","ô","ã","õ","ç">>

Digits == {"0","1","2","3","4","5","6","7","8","9"}
Whitespace == {" "}

IsDigit(c) == c \in Digits

LowerCh(c) ==
  IF \E i \in 1..Len(UpperChars) : UpperChars[i] = c
  THEN LowerChars[CHOOSE i \in 1..Len(UpperChars) : UpperChars[i] = c]
  ELSE c

UpperCh(c) ==
  IF \E i \in 1..Len(LowerChars) : LowerChars[i] = c
  THEN UpperChars[CHOOSE i \in 1..Len(LowerChars) : LowerChars[i] = c]
  ELSE c

\* str.lower() and str.upper()
Lower(s) == [i \in 1..Len(s) |-> LowerCh(s[i])]
Upper(s) == [i \in 1..Len(s) |-> UpperCh(s[i])]

\* str.strip(): leading and trailing whitespace removed
Strip(s) ==
  LET keep == {i \in 1..Len(s) : s[i] \notin Whitespace}
  IN  IF keep = {} THEN <<>>
      ELSE LET lo == CHOOSE i \in keep : \A j \in keep : i <= j
               hi == CHOOSE i \in keep : \A j \in keep : j <= i
           IN  SubSeq(s, lo, hi)

\* Python's `needle in hay` on strings
Contains(needle, hay) ==
  \E i \in 0..(Len(hay) - Len(needle)) : SubSeq(hay, i + 1, i + Len(needle)) = needle

\* ------------------------------------------------------------ identifiers
CpfPlain == <<"0","1","1","3","0","3","8","0","1","1","4">>
CpfMasked == <<"1","2","3",".","4","5","6",".","7","8","9","-","0","1">>
CpfShort == <<"1","2","3">>
CpfAlpha == <<"a","b","c">>
CpfEmpty == <<>>
CpfLong == <<"1","2","3","4","5","6","7","8","9","0","1","2">>

\* re.sub(r'\D', '', cpf)
Sanitize(cpf) == SelectSeq(cpf, IsDigit)

\* Number of digits a sanitized CPF must have.
CpfDigits == 11

\* Faulty variant of the length test: only an identifier with too many
\* digits is rejected.
IsValidCpfAtMost(cpf) == Len(Sanitize(cpf)) <= CpfDigits

\* not (len(cpf_sanitizado) != 11)
IsValidCpf(cpf) == Len(Sanitize(cpf)) = CpfDigits

\* ------------------------------------------------------- provider payloads
NomeJoao == <<"J","o","a","o">>
NomeJoaoPadded == <<" ","j","o","a","o"," ","s","i","l","v","a"," ">>
NomeMaria == <<"M","a","r","i","a">>
NomeNaoInformado == <<"N","o","m","e"," ","n","ã","o"," ","i","n","f","o","r","m","a","d","o">>
NomeNaoEncontrado == <<"N","ã","o"," ","e","n","c","o","n","t","r","a","d","o">>
NomeErroConsulta == <<"E","r","r","o"," ","n","a"," ","c","o","n","s","u","l","t","a">>
NomeErroProcessamento == <<"E","r","r","o"," ","n","o"," ","p","r","o","c","e","s","s","a","m","e","n","t","o">>

TypeDefendant == <<"D","e","f","e","n","d","a","n","t">>
TypeReu == <<"r","é","u">>
TypeAuthor == <<"A","U","T","H","O","R">>
DEFENDANT == <<"D","E","F","E","N","D","A","N","T">>
REU == <<"R","É","U">>

TxtAbsolvido == <<"o"," ","r","é","u"," ","f","o","i"," ","a","b","s","o","l","v","i","d","o">>
TxtAbsolvidoUpper == <<"R","É","U"," ","A","B","S","O","L","V","I","D","O">>
TxtImprocedente == <<"J","u","l","g","o"," ","i","m","p","r","o","c","e","d","e","n","t","e">>
TxtArquivado == <<"a","u","t","o","s"," ","a","r","q","u","i","v","a","d","o","s">>
TxtExtinta == <<"e","x","t","i","n","ç","ã","o"," ","d","a"," ","p","e","n","a">>
TxtSemProvas == <<"a","u","s","ê","n","c","i","a"," ","d","e"," ","p","r","o","v","a","s">>
TxtCondenado == <<"r","é","u"," ","c","o","n","d","e","n","a","d","o">>
TxtBlank == <<" "," ">>

CaseA == <<"0","0","0","1">>
CaseB == <<"0","0","0","2">>
CaseCivil == <<"9","0","0","9">>

\* A party entry of a lawsuit: parte["Type"], parte["Name"],
\* parte["PartyDetails"]["SpecificType"] (absent keys read as "").
Party(type, name, spec) == [Type |-> type, Name |-> name, SpecificType |-> spec]

\* A lawsuit entry; keys the payload omits read as "" / [] as proc.get does.
Lawsuit(court, parties, casenum, decision, content, decisions) ==
  [CourtType |-> court, Parties |-> parties, CaseNumber |-> casenum,
   Number |-> <<>>, Decision |-> decision, Content |-> content,
   Description |-> <<>>, Summary |-> <<>>, Decisions |-> decisions,
   CloseDate |-> "", LastMovementDate |-> "2020-01-01",
   CourtName |-> "TJSP", CourtDistrict |-> "SAO PAULO"]

\* One entry of bdc_data["Result"]. nameKind: "str" (BasicData.Name is a
\* string), "missing" (no Name key), "null" (Name is JSON null).
Person(nameKind, name, lawsuits) ==
  [nameKind |-> nameKind, Name |-> name, Lawsuits |-> lawsuits]

\* What fetch_single_cpf_data returns (bdc_data), in one record shape:
\*   t = "errdict" : {"cpf": cpf, "error": error}
\*   t = "null"    : a JSON scalar (response.json() returned None)
\*   t = "dict"    : a JSON object; hasError / hasResult say whether it has
\*                   the top-level keys "error" / "Result"
ErrDict(cpf, detail) ==
  [t |-> "errdict", cpf |-> cpf, error |-> detail, hasError |-> TRUE,
   hasResult |-> FALSE, Result |-> <<>>]
JsonNull ==
  [t |-> "null", cpf |-> <<>>, error |-> "", hasError |-> FALSE,
   hasResult |-> FALSE, Result |-> <<>>]
JsonDict(hasError, error, hasResult, result) ==
  [t |-> "dict", cpf |-> <<>>, error |-> error, hasError |-> hasError,
   hasResult |-> hasResult, Result |-> result]

\* The body of an HTTP reply that is not JSON (response.json() raises).
JsonInvalid ==
  [t |-> "invalid", cpf |-> <<>>, error |-> "", hasError |-> FALSE, hasResult |-> FALSE, Result |-> <<>>]

\* What requests.post does for one request: exc # "" is the exception it
\* raises (timeout, connection error), otherwise the reply's status and body.
Response(exc, status, body) == [exc |-> exc, status |-> status, body |-> body]

\* --------------------------------------------------- results (both paths)
\* The dict built for one identifier.  status is the pair (tag, detail) of
\* the f-string f"{tag}: {detail}"; foi_absolvido is "True", "False" or
\* "None".
Result(cpf, nome, foi, total_processos, absolvicoes, tag, detail) ==
  [cpf |-> cpf, nome |-> nome, foi_absolvido |-> foi,
   total_processos_criminais |-> total_processos,
   total_absolvicoes |-> Len(absolvicoes),
   detalhes_absolvicoes |-> absolvicoes,
   status |-> [tag |-> tag, detail |-> detail]]

\* ------------------------------------------------------ keyword classifier
palavras_absolvicao ==
  <<<<"a","b","s","o","l","v">>,
    <<"i","m","p","r","o","c","e","d","e","n","t">>,
    <<"a","r","q","u","i","v">>,
    <<"e","x","t","i","n","ç">>,
    <<"n","ã","o"," ","p","r","o","c","e","d","e">>,
    <<"n","a","o"," ","p","r","o","c","e","d","e">>,
    <<"j","u","l","g","o"," ","i","m","p","r","o","c","e","d","e","n","t","e">>,
    <<"a","b","s","o","l","v","o">>,
    <<"n","ã","o"," ","h","á"," ","e","l","e","m","e","n","t","o","s">>,
    <<"n","a","o"," ","h","a"," ","e","l","e","m","e","n","t","o","s">>,
    <<"a","u","s","ê","n","c","i","a"," ","d","e"," ","p","r","o","v","a","s">>,
    <<"a","u","s","e","n","c","i","a"," ","d","e"," ","p","r","o","v","a","s">>,
    <<"i","n","s","u","f","i","c","i","ê","n","c","i","a"," ","d","e"," ","p","r","o","v","a","s">>,
    <<"i","n","s","u","f","i","c","i","e","n","c","i","a"," ","d","e"," ","p","r","o","v","a","s">>>>

\* Faulty variant: any non-blank text counts as a match.
HasKeywordAnyText(texto_lower) == Len(texto_lower) > 0

\* any(palavra in texto_lower for palavra in palavras_absolvicao)
HasKeyword(texto_lower) ==
  \E n \in 1..Len(palavras_absolvicao) : Contains(palavras_absolvicao[n], texto_lower)

\* Faulty variant: the text is matched without lower-casing it.
classify_absolution_type_cased(texto) ==
  IF Contains(palavras_absolvicao[1], texto) THEN "Absolvição"
  ELSE IF \E n \in {2, 5, 6} : Contains(palavras_absolvicao[n], texto)
    THEN "Improcedência"
  ELSE IF Contains(palavras_absolvicao[3], texto) THEN "Arquivamento"
  ELSE IF Contains(palavras_absolvicao[4], texto) THEN "Extinção"
  ELSE "Outra forma de absolvição"

\* _classify_absolution_type
classify_absolution_type(texto) ==
  LET texto_lower == Lower(texto)
  IN  IF Contains(palavras_absolvicao[1], texto_lower) THEN "Absolvição"
      ELSE IF \E n \in {2, 5, 6} : Contains(palavras_absolvicao[n], texto_lower)
        THEN "Improcedência"
      ELSE IF Contains(palavras_absolvicao[3], texto_lower) THEN "Arquivamento"
      ELSE IF Contains(palavras_absolvicao[4], texto_lower) THEN "Extinção"
      ELSE "Outra forma de absolvição"

\* Longest excerpt kept of a matched field before the ellipsis.
TruncLen == 200

\* campo[:200] + "..." if len(campo) > 200 else campo
Trecho(campo) ==
  IF Len(campo) > TruncLen THEN SubSeq(campo, 1, TruncLen) \o <<".", ".", ".">> ELSE campo

\* proc.get("CaseNumber") or proc.get("Number", "")
numero_processo(proc) ==
  IF proc.CaseNumber # <<>> THEN proc.CaseNumber ELSE proc.Number

\* The role test of one party: papel == "DEFENDANT" or papel == "RÉU" or espec == "RÉU"
RoleMatches(parte) ==
  LET papel == Upper(parte.Type)
      espec == Upper(parte.SpecificType)
  IN  papel = DEFENDANT \/ papel = REU \/ espec = REU

\* The loop over partes: is_reu
is_reu(nome, proc) ==
  \E j \in 1..Len(proc.Parties) :
    /\ RoleMatches(proc.Parties[j])
    /\ Contains(Upper(Strip(nome)), Upper(Strip(proc.Parties[j].Name)))

\* Faulty variant of the filter: the court type is not looked at.
QualifiesAnyCourt(nome, proc) == is_reu(nome, proc)

\* if proc.get("CourtType") == "CRIMINAL": ... if is_reu: append
Qualifies(nome, proc) == proc.CourtType = "CRIMINAL" /\ is_reu(nome, proc)

\* processos_criminais
processos_criminais(nome, lawsuits) ==
  SelectSeq(lawsuits, LAMBDA proc : Qualifies(nome, proc))

\* campos_decisao: Decision, Content, Description, Summary, then each
\* decision's DecisionContent
campos_decisao(proc) ==
  <<proc.Decision, proc.Content, proc.Description, proc.Summary>> \o proc.Decisions

\* The dict appended to absolvicoes on a keyword hit.
Finding(proc, campo) ==
  [processo |-> numero_processo(proc),
   tipo_decisao |-> classify_absolution_type(campo),
   data |-> IF proc.CloseDate # "" THEN proc.CloseDate ELSE proc.LastMovementDate,
   orgao |-> proc.CourtName,
   comarca |-> proc.CourtDistrict,
   trecho_decisao |-> Trecho(campo)]

\* Faulty variant of the field loop: it goes on after a hit, so a lawsuit
\* gives one finding per matching field.
RECURSIVE ScanFieldsAll(_, _, _, _)
ScanFieldsAll(campos, j, proc, absolvicoes) ==
  IF j > Len(campos) THEN absolvicoes
  ELSE ScanFieldsAll(campos, j + 1, proc,
         IF Strip(campos[j]) # <<>> /\ HasKeyword(Lower(campos[j]))
         THEN Append(absolvicoes, Finding(proc, campos[j]))
         ELSE absolvicoes)

\* The loop `for campo in campos_decisao` of one lawsuit, from field j on.
RECURSIVE ScanFields(_, _, _, _)
ScanFields(campos, j, proc, absolvicoes) ==
  IF j > Len(campos) THEN absolvicoes
  ELSE LET campo == campos[j]
       IN  IF Strip(campo) # <<>>
           THEN LET found == IF HasKeyword(Lower(campo))
                             THEN Append(absolvicoes, Finding(proc, campo))
                             ELSE absolvicoes
                IN  IF found # <<>> /\ found[Len(found)].processo = numero_processo(proc)
                    THEN found
                    ELSE ScanFields(campos, j + 1, proc, found)
           ELSE ScanFields(campos, j + 1, proc, absolvicoes)

\* The loop `for proc in processos_criminais`, from lawsuit n on.
RECURSIVE ScanLawsuits(_, _, _)
ScanLawsuits(procs, n, absolvicoes) ==
  IF n > Len(procs) THEN absolvicoes
  ELSE ScanLawsuits(procs, n + 1,
                    ScanFields(campos_decisao(procs[n]), 1, procs[n], absolvicoes))

\* nome = basic.get("Name", "Nome não informado")
NomeOf(pessoa) ==
  IF pessoa.nameKind = "missing" THEN NomeNaoInformado ELSE pessoa.Name

\* Whether the body of analyze_absolution raises: "Result" not in None, or
\* nome.strip() on a null Name, reached at the first party of a CRIMINAL
\* lawsuit whose role matches.
AnalyzeRaises(bdc_data) ==
  \/ bdc_data.t = "null"
  \/ /\ bdc_data.hasResult
     /\ bdc_data.Result # <<>>
     /\ bdc_data.Result[1].nameKind = "null"
     /\ \E n \in 1..Len(bdc_data.Result[1].Lawsuits) :
          /\ bdc_data.Result[1].Lawsuits[n].CourtType = "CRIMINAL"
          /\ \E j \in 1..Len(bdc_data.Result[1].Lawsuits[n].Parties) :
               RoleMatches(bdc_data.Result[1].Lawsuits[n].Parties[j])

\* str(e) of the exception analyze_absolution catches
AnalyzeError(bdc_data) ==
  IF bdc_data.t = "null" THEN "argument of type 'NoneType' is not iterable"
  ELSE "'NoneType' object has no attribute 'strip'"

analyze_absolution(bdc_data, cpf) ==
  IF AnalyzeRaises(bdc_data)
  THEN Result(cpf, NomeErroProcessamento, "None", 0, <<>>, "erro", AnalyzeError(bdc_data))
  ELSE IF ~bdc_data.hasResult \/ bdc_data.Result = <<>>
  THEN Result(cpf, NomeNaoEncontrado, "None", 0, <<>>, "dados_nao_encontrados", "")
  ELSE LET pessoa == bdc_data.Result[1]
           nome == NomeOf(pessoa)
           criminais == processos_criminais(nome, pessoa.Lawsuits)
           absolvicoes == ScanLawsuits(criminais, 1, <<>>)
       IN  Result(cpf, nome, IF Len(absolvicoes) > 0 THEN "True" ELSE "False",
                  Len(criminais), absolvicoes, "sucesso", "")

\* --------------------------------------- contextual classifier: narrative
\* Faulty variant of the contextual filter: the court type is not looked at.
QualifiesLLMAnyCourt(nome, proc) == is_reu(nome, proc)

\* batch_processor_llm.py repeats the filter: CRIMINAL and is_reu.
QualifiesLLM(nome, proc) == proc.CourtType = "CRIMINAL" /\ is_reu(nome, proc)

\* processos_criminais of analyze_absolution_with_llm
processos_criminais_llm(nome, lawsuits) ==
  SelectSeq(lawsuits, LAMBDA proc : QualifiesLLM(nome, proc))

\* One labelled line of textos_processo: f"{label}: {text}"; n numbers the
\* decision events ("Decisão {i+1}"), 0 for the other fields.
Line(label, n, text) == [label |-> label, n |-> n, text |-> text]

\* textos_processo of one lawsuit: Content, Decision, Description, then
\* every decision event with a non-empty DecisionContent.
textos_processo(proc) ==
  (IF proc.Content # <<>> THEN <<Line("Conteúdo", 0, proc.Content)>> ELSE <<>>)
  \o (IF proc.Decision # <<>> THEN <<Line("Decisão", 0, proc.Decision)>> ELSE <<>>)
  \o (IF proc.Description # <<>> THEN <<Line("Descrição", 0, proc.Description)>> ELSE <<>>)
  \o SelectSeq([n \in 1..Len(proc.Decisions) |-> Line("Decisão", n, proc.Decisions[n])],
               LAMBDA l : l.text # <<>>)

\* texto_completo_decisoes: one block per qualifying lawsuit that has text.
texto_completo_decisoes(criminais) ==
  LET withText == SelectSeq(criminais, LAMBDA proc : textos_processo(proc) # <<>>)
  IN  [n \in 1..Len(withText) |->
         [processo |-> numero_processo(withText[n]),
          tribunal |-> withText[n].CourtName,
          textos |-> textos_processo(withText[n])]]

\* Lines 138-220 of analyze_absolution_with_llm: what is handed to
\* analyze_with_llm (the blocks of texto_para_ia) and total_processos.
\* built is FALSE when the function returned or raised before that.
narrative_for_llm(bdc_data) ==
  IF AnalyzeRaises(bdc_data) \/ ~bdc_data.hasResult \/ bdc_data.Result = <<>>
  THEN [built |-> FALSE, texto |-> <<>>, total_processos |-> 0]
  ELSE LET pessoa == bdc_data.Result[1]
           criminais == processos_criminais_llm(NomeOf(pessoa), pessoa.Lawsuits)
       IN  [built |-> TRUE, texto |-> texto_completo_decisoes(criminais),
            total_processos |-> Len(criminais)]

\* ------------------------------- contextual classifier: reasoning service
\* A confidence value as it sits in a reply or a result: t is its JSON type
\* ("int", "float", "str", "null") or "missing" (no such key, as in the
\* results of batch_processor.py); v is the number in tenths for the
\* numeric types.
Conf(t, v) == [t |-> t, v |-> v]

\* An f-string: its fixed text and the value interpolated into it.
Text(fixed, detail) == [fixed |-> fixed, detail |-> detail]

\* A key the JSON object of a reply does not have.
Missing == "<missing>"

\* What self.openai_client.chat.completions.create and json.loads do for one
\* call.  kind: "error" (the call raises), "notjson" (the content is not
\* JSON), "nonobject" (JSON, but a list or scalar), "object".  For an object:
\* foi is "True"/"False"/"None" (JSON true/false/null), Missing, or any other
\* string for a JSON string; conf a Conf; just / det a string or Missing.
LLMReply(kind, detail, foi, conf, just, det) ==
  [kind |-> kind, detail |-> detail, foi |-> foi, conf |-> conf, just |-> just, det |-> det]

\* The dict analyze_with_llm returns (t = "dict"), or a value that is not a
\* dict (t = "nondict"); contacted says whether the service was called.
LLMDict(t, contacted, foi, conf, just, det) ==
  [t |-> t, contacted |-> contacted, foi |-> foi, conf |-> conf, just |-> just, det |-> det]

\* Faulty variant: the service is called whatever the narrative.
NarrativeIsNeverEmpty(texto) == FALSE

\* not texto_decisoes.strip(): every block of the narrative starts with
\* "PROCESSO", so the joined text is blank only when there is no block.
NarrativeIsEmpty(texto) == texto = <<>>

\* analyze_with_llm
analyze_with_llm(texto, reply) ==
  IF NarrativeIsEmpty(texto)
  THEN LLMDict("dict", FALSE, "None", Conf("int", 0),
               Text("Nenhuma decisão disponível para análise", ""),
               Text("Sem dados suficientes", ""))
  ELSE IF reply.kind \in {"error", "notjson"}
  THEN LLMDict("dict", TRUE, "None", Conf("int", 0),
               Text("Erro na análise IA: ", reply.detail),
               Text("Falha no processamento", ""))
  ELSE IF reply.kind = "nonobject"
  THEN LLMDict("nondict", TRUE, Missing, Conf("missing", 0), Text(Missing, ""), Text(Missing, ""))
  ELSE LLMDict("dict", TRUE, reply.foi, reply.conf, Text(reply.just, ""), Text(reply.det, ""))

\* The dict built for one identifier by the contextual path.
ResultLLM(cpf, nome, foi, conf, just, det, total_processos, tag, detail) ==
  [cpf |-> cpf, nome |-> nome, foi_absolvido |-> foi, confianca_analise |-> conf,
   justificativa |-> just, detalhes_ia |-> det,
   total_processos_criminais |-> total_processos,
   status |-> [tag |-> tag, detail |-> detail]]

\* dict.get(key, default) on the dict analyze_with_llm returned
GetOr(value, default) == IF value = Missing THEN default ELSE value

\* The same for a text: resultado_ia.get("justificativa", "")
GetText(text) == IF text.fixed = Missing THEN Text("", "") ELSE text

\* analyze_absolution_with_llm: the result and whether the reasoning
\* service was called on the way.
analyze_absolution_with_llm(bdc_data, cpf, reply) ==
  IF AnalyzeRaises(bdc_data)
  THEN [contacted |-> FALSE,
        result |-> ResultLLM(cpf, NomeErroProcessamento, "None", Conf("int", 0),
                     Text("Erro durante processamento: ", AnalyzeError(bdc_data)),
                     Text("Falha na análise", ""), 0, "erro", AnalyzeError(bdc_data))]
  ELSE IF ~bdc_data.hasResult \/ bdc_data.Result = <<>>
  THEN [contacted |-> FALSE,
        result |-> ResultLLM(cpf, NomeNaoEncontrado, "None", Conf("int", 0),
                     Text("Dados não encontrados na base", ""),
                     Text("CPF não localizado", ""), 0, "dados_nao_encontrados", "")]
  ELSE LET narrative == narrative_for_llm(bdc_data)
           resultado_ia == analyze_with_llm(narrative.texto, reply)
       IN  IF resultado_ia.t = "nondict"
           THEN [contacted |-> resultado_ia.contacted,
                 result |-> ResultLLM(cpf, NomeErroProcessamento, "None", Conf("int", 0),
                              Text("Erro durante processamento: ", "AttributeError"),
                              Text("Falha na análise", ""), 0, "erro", "AttributeError")]
           ELSE [contacted |-> resultado_ia.contacted,
                 result |-> ResultLLM(cpf, NomeOf(bdc_data.Result[1]),
                              GetOr(resultado_ia.foi, "None"),
                              IF resultado_ia.conf.t = "missing" THEN Conf("int", 0)
                              ELSE resultado_ia.conf,
                              GetText(resultado_ia.just),
                              GetText(resultado_ia.det),
                              narrative.total_processos, "sucesso", "")]

\* The answers of the reasoning service the classifier is run against.
ReplyFailed == LLMReply("error", "APIConnectionError", Missing, Conf("missing", 0), Missing, Missing)
ReplyNotJson == LLMReply("notjson", "JSONDecodeError", Missing, Conf("missing", 0), Missing, Missing)
ReplyList == LLMReply("nonobject", "", Missing, Conf("missing", 0), Missing, Missing)
ReplyAbsolved == LLMReply("object", "", "True", Conf("int", 950), "absolvido em sentença", "1 processo")
ReplyNotAbsolved == LLMReply("object", "", "False", Conf("int", 1000), "condenado", "1 processo")
ReplyEmptyObject == LLMReply("object", "", Missing, Conf("missing", 0), Missing, Missing)
ReplyStrings == LLMReply("object", "", "sim", Conf("str", 0), "absolvido", "1 processo")
ReplyOutOfRange == LLMReply("object", "", "True", Conf("int", 1500), "absolvido", "1 processo")
ReplyFraction == LLMReply("object", "", "None", Conf("float", 855), "inconclusivo", Missing)

\* A JSON object whose outcome is the string "sim".
ReplyOutcomeText == LLMReply("object", "", "sim", Conf("int", 900), "absolvido em sentença", "1 processo")

LLMReplyPool ==
  {ReplyFailed, ReplyNotJson, ReplyList, ReplyAbsolved, ReplyNotAbsolved,
   ReplyEmptyObject, ReplyStrings, ReplyOutOfRange, ReplyFraction}

\* The answers the contextual batch is run against.
LLMReplyPoolBatch ==
  {ReplyFailed, ReplyAbsolved, ReplyOutOfRange}

\* ------------------------------------------------- fetch_single_cpf_data
\* The replies of the provider the batch is run against.
PersonAbsolved ==
  Person("str", NomeJoao,
         <<Lawsuit("CRIMINAL", <<Party(TypeDefendant, NomeJoaoPadded, <<>>)>>,
                   CaseA, TxtAbsolvido, <<>>, <<>>)>>)
PersonConvicted ==
  Person("str", NomeJoao,
         <<Lawsuit("CRIMINAL", <<Party(TypeReu, NomeJoao, <<>>)>>,
                   CaseB, TxtCondenado, <<>>, <<>>)>>)

RespTimeout == Response("ReadTimeout", 0, JsonInvalid)
RespServerError == Response("", 500, JsonInvalid)
RespNotJson == Response("", 200, JsonInvalid)
RespNull == Response("", 200, JsonNull)
RespErrorKey == Response("", 200, JsonDict(TRUE, "quota exceeded", FALSE, <<>>))
RespEmpty == Response("", 200, JsonDict(FALSE, "", TRUE, <<>>))
RespAbsolved == Response("", 200, JsonDict(FALSE, "", TRUE, <<PersonAbsolved>>))
RespConvicted == Response("", 200, JsonDict(FALSE, "", TRUE, <<PersonConvicted>>))

ResponsePool ==
  {RespTimeout, RespServerError, RespNotJson, RespNull, RespErrorKey,
   RespEmpty, RespAbsolved, RespConvicted}

\* Faulty variant: response.raise_for_status() is left out, so the body of
\* an error reply is parsed like any other.
FetchReturnUnchecked(cpf, resp) ==
  IF resp.exc # "" THEN ErrDict(cpf, resp.exc)
  ELSE IF resp.body.t = "invalid" THEN ErrDict(cpf, "JSONDecodeError")
  ELSE resp.body

\* Lines 53-65: requests.post, raise_for_status, response.json(), and the
\* except clause that turns whatever was raised into {"cpf", "error"}.
FetchReturn(cpf, resp) ==
  IF resp.exc # "" THEN ErrDict(cpf, resp.exc)
  ELSE IF resp.status >= 400 THEN ErrDict(cpf, "HTTPError")
  ELSE IF resp.body.t = "invalid" THEN ErrDict(cpf, "JSONDecodeError")
  ELSE resp.body

\* Faulty variant: a request that raised (timeout, connection error) is
\* tried again instead of being reported.
RetryOnTransportError(resp) == resp.exc = ""

\* Every path of fetch_single_cpf_data after the request returns: there is
\* no loop around requests.post, so the future completes whatever the reply.
FetchReturnsAfter(resp) == TRUE

\* ---------------------------------------------------------- process_batch
\* `"error" in bdc_data` raises TypeError when response.json() gave a scalar.
TryRaises(bdc) == bdc.t = "null"

\* Faulty variant: the classifier is called whatever the fetch returned.
ClassifierCalledAlways(bdc) == TRUE

\* Lines 213 and 223: the classifier is called in the else branch of
\* `if "error" in bdc_data`.
ClassifierCalled(bdc) == ~bdc.hasError

\* Lines 213-224: the result of one unit inside the try block.
UnitResult(cpf, bdc) ==
  IF ~ClassifierCalled(bdc)
  THEN Result(cpf, NomeErroConsulta, "None", 0, <<>>, "erro_api", bdc.error)
  ELSE analyze_absolution(bdc, cpf)

\* Lines 238-246: the dict appended by the except clause.
ExceptResult(cpf, msg) ==
  Result(cpf, NomeErroConsulta, "None", 0, <<>>, "excecao", msg)

\* Faulty variant: the except clause only prints and appends nothing.
process_future_drop(res, cpf, bdc, callback, cbRaises) ==
  IF TryRaises(bdc)
  THEN res
  ELSE Append(res, UnitResult(cpf, bdc))

\* Lines 208-246 for one completed future: the results list afterwards.
\* cbRaises says whether progress_callback (if called) raises.
process_future(res, cpf, bdc, callback, cbRaises) ==
  IF TryRaises(bdc)
  THEN Append(res, ExceptResult(cpf, "argument of type 'NoneType' is not iterable"))
  ELSE IF callback /\ cbRaises
  THEN Append(Append(res, UnitResult(cpf, bdc)), ExceptResult(cpf, "callback failed"))
  ELSE Append(res, UnitResult(cpf, bdc))

\* batch_processor_llm.py lines 265-277: the result of one unit inside the
\* try block, and whether the reasoning service was called for it.
UnitResultLLM(cpf, bdc, reply) ==
  IF ~ClassifierCalled(bdc)
  THEN [contacted |-> FALSE,
        result |-> ResultLLM(cpf, NomeErroConsulta, "None", Conf("int", 0),
                             Text("Erro na API: ", bdc.error),
                             Text("Falha na consulta de dados", ""), 0,
                             "erro_api", bdc.error)]
  ELSE analyze_absolution_with_llm(bdc, cpf, reply)

\* batch_processor_llm.py lines 291-300: the dict appended by the except clause.
ExceptResultLLM(cpf, msg) ==
  ResultLLM(cpf, NomeErroConsulta, "None", Conf("int", 0),
            Text("Exceção durante processamento: ", msg),
            Text("Falha no processamento", ""), 0, "excecao", msg)

\* batch_processor_llm.py lines 260-300 for one completed future.
process_future_llm(res, cpf, bdc, callback, cbRaises, reply) ==
  IF TryRaises(bdc)
  THEN Append(res, ExceptResultLLM(cpf, "argument of type 'NoneType' is not iterable"))
  ELSE IF callback /\ cbRaises
  THEN Append(Append(res, UnitResultLLM(cpf, bdc, reply).result),
              ExceptResultLLM(cpf, "callback failed"))
  ELSE Append(res, UnitResultLLM(cpf, bdc, reply).result)

\* Faulty variant: the pool starts one thread too many.
WorkerFreeOffByOne(running, width) == running <= width

\* ThreadPoolExecutor(max_workers=...): a worker thread is free to take the
\* next queued work item.
WorkerFree(running, width) == running < width

VARIABLES
  cpfs,          \* the input list
  max_workers,   \* self.max_workers
  has_callback,  \* progress_callback is not None
  cb_raise_at,   \* the progress callback raises when called with this `completed`
                 \* (0: never); -1: it may raise at any call
  table,         \* a deterministic provider: identifier -> reply (SpecDet)
  pc_main,       \* where the calling thread is
  nsub,          \* futures submitted so far
  st,            \* per unit: "unsubmitted", "queued", "sleeping", "requesting", "done"
  bdc_data,      \* per unit: the value its future holds
  requests,      \* per unit: provider requests issued
  replies,       \* history: per unit, what the provider did with its request
  finished0,     \* as_completed: futures found finished at its start, not yet yielded
  waiterq,       \* as_completed: futures finished since, in completion order
  i,             \* enumerate(..., 1) counter
  results,       \* the results list
  log,           \* history: for each entry of results, its unit and code path
  cb_log,        \* history: every call of progress_callback
  cur,           \* the unit whose loop body waits for the reasoning service (0: none)
  order,         \* the finished futures not yet yielded, in the order they finished
  cl_pc,         \* classifier harness: "idle", "input", "keyword", "contextual"
  cl_bdc,        \* classifier harness: the record classified
  cl_result,     \* classifier harness: what analyze_absolution returned
  cl_narrative,  \* classifier harness: what analyze_absolution_with_llm assembled
  cl_reply,      \* classifier harness: what the reasoning service answers
  cl_llm,        \* classifier harness: what analyze_absolution_with_llm returned
  sum_results,   \* statistics harness: the collection handed to get_summary_stats
  sum_stats      \* statistics harness: what get_summary_stats returned

vars ==
  <<cpfs, max_workers, has_callback, cb_raise_at, table, replies, cur, pc_main, nsub, st,
    bdc_data, requests, finished0, waiterq, i, results, log, cb_log, order,
    cl_pc, cl_bdc, cl_result, cl_narrative, cl_reply, cl_llm,
    sum_results, sum_stats>>

batch_vars ==
  <<cpfs, max_workers, has_callback, cb_raise_at, table, replies, cur, pc_main, nsub, st,
    bdc_data, requests, finished0, waiterq, i, results, log, cb_log, order>>

cl_vars ==
  <<cl_pc, cl_bdc, cl_result, cl_narrative, cl_reply, cl_llm, sum_results, sum_stats>>

\* The identifiers the batches of Spec are drawn from: one that sanitizes to
\* 11 digits and two that do not.
CpfPool == {CpfMasked, CpfShort, CpfEmpty}

Pending ==
  [t |-> "pending", cpf |-> <<>>, error |-> "", hasError |-> FALSE, hasResult |-> FALSE, Result |-> <<>>]

\* No request of the unit has ended yet.
NoReply == Response("no reply", 0, JsonInvalid)

Units == 1..Len(cpfs)

Batches == UNION {[1..n -> CpfPool] : n \in 0..MaxBatch}

\* State of process_batch at entry, for a given call.
BatchStart(batch, width, callback) ==
  /\ cpfs = batch
  /\ max_workers = width
  /\ has_callback = callback
  /\ pc_main = "submit"
  /\ nsub = 0
  /\ st = [k \in 1..Len(batch) |-> "unsubmitted"]
  /\ bdc_data = [k \in 1..Len(batch) |-> Pending]
  /\ requests = [k \in 1..Len(batch) |-> 0]
  /\ replies = [k \in 1..Len(batch) |-> NoReply]
  /\ finished0 = {}
  /\ waiterq = <<>>
  /\ i = 0
  /\ results = <<>>
  /\ log = <<>>
  /\ cb_log = <<>>
  /\ cur = 0
  /\ order = <<>>

ClassifierIdle ==
  /\ cl_pc = "idle"
  /\ cl_bdc = Pending
  /\ cl_result = <<>>
  /\ cl_narrative = <<>>
  /\ cl_reply = <<>>
  /\ cl_llm = <<>>
  /\ sum_results = <<>>
  /\ sum_stats = <<>>

Init ==
  /\ \E batch \in Batches, width \in 1..MaxWorkers, callback \in BOOLEAN :
       BatchStart(batch, width, callback)
  /\ cb_raise_at = -1
  /\ table = <<>>
  /\ ClassifierIdle

Running == Cardinality({k \in Units : st[k] \in {"sleeping", "requesting"}})

\* A future completes: set_result, then the as_completed waiter (if
\* installed) is told.
Complete(k, value) ==
  /\ st' = [st EXCEPT ![k] = "done"]
  /\ bdc_data' = [bdc_data EXCEPT ![k] = value]
  /\ waiterq' = IF pc_main # "submit" THEN Append(waiterq, k) ELSE waiterq
  /\ order' = Append(order, k)

\* Line 205: executor.submit(self.fetch_single_cpf_data, cpf), one per cpf.
Submit ==
  /\ pc_main = "submit"
  /\ nsub < Len(cpfs)
  /\ nsub' = nsub + 1
  /\ st' = [st EXCEPT ![nsub + 1] = "queued"]
  /\ UNCHANGED <<cpfs, max_workers, has_callback, cb_raise_at, table, replies, cur, pc_main,
                 bdc_data, requests, finished0, waiterq, i, results, log, cb_log>>
  /\ UNCHANGED order
  /\ UNCHANGED cl_vars

\* Faulty variant: the worker sends the request without the time.sleep
\* of line 39.
StartNoDelay(k) ==
  /\ st[k] = "queued"
  /\ \A j \in Units : st[j] = "queued" => k <= j
  /\ WorkerFree(Running, max_workers)
  /\ IF IsValidCpf(cpfs[k])
     THEN /\ st' = [st EXCEPT ![k] = "requesting"]
          /\ requests' = [requests EXCEPT ![k] = @ + 1]
          /\ UNCHANGED <<bdc_data, waiterq, order>>
     ELSE Complete(k, ErrDict(cpfs[k], "CPF inválido")) /\ UNCHANGED requests
  /\ UNCHANGED <<cpfs, max_workers, has_callback, cb_raise_at, table, replies, cur, pc_main,
                 nsub, finished0, i, results, log, cb_log>>
  /\ UNCHANGED cl_vars

\* A pool worker takes the oldest queued work item and runs lines 33-39:
\* an identifier that does not sanitize to 11 digits returns at once,
\* any other starts its time.sleep.
Start(k) ==
  /\ st[k] = "queued"
  /\ \A j \in Units : st[j] = "queued" => k <= j
  /\ WorkerFree(Running, max_workers)
  /\ IF IsValidCpf(cpfs[k])
     THEN /\ st' = [st EXCEPT ![k] = "sleeping"]
          /\ UNCHANGED <<bdc_data, waiterq, order>>
     ELSE Complete(k, ErrDict(cpfs[k], "CPF inválido"))
  /\ UNCHANGED <<cpfs, max_workers, has_callback, cb_raise_at, table, replies, cur, pc_main,
                 nsub, requests, finished0, i, results, log, cb_log>>
  /\ UNCHANGED cl_vars

\* time.sleep returns and requests.post sends the request.
Wake(k) ==
  /\ st[k] = "sleeping"
  /\ st' = [st EXCEPT ![k] = "requesting"]
  /\ requests' = [requests EXCEPT ![k] = @ + 1]
  /\ UNCHANGED <<cpfs, max_workers, has_callback, cb_raise_at, table, replies, cur, pc_main,
                 nsub, bdc_data, finished0, waiterq, i, results, log, cb_log>>
  /\ UNCHANGED order
  /\ UNCHANGED cl_vars

\* The request ends (reply, error status, timeout) and the function returns.
Reply(k, resp) ==
  /\ st[k] = "requesting"
  /\ IF FetchReturnsAfter(resp)
     THEN Complete(k, FetchReturn(cpfs[k], resp))
     ELSE /\ st' = [st EXCEPT ![k] = "sleeping"]
          /\ UNCHANGED <<bdc_data, waiterq, order>>
  /\ replies' = [replies EXCEPT ![k] = resp]
  /\ UNCHANGED <<cpfs, max_workers, has_callback, cb_raise_at, table, cur, pc_main,
                 nsub, requests, finished0, i, results, log, cb_log>>
  /\ UNCHANGED cl_vars

Respond(k) == \E resp \in ResponsePool : Reply(k, resp)

\* Line 207: as_completed starts once every future is submitted; it notes the
\* futures already finished and installs its waiter on the others.
AsCompleted ==
  /\ pc_main = "submit"
  /\ nsub = Len(cpfs)
  /\ pc_main' = "collect"
  /\ finished0' = {k \in Units : st[k] = "done"}
  /\ UNCHANGED <<cpfs, max_workers, has_callback, cb_raise_at, table, replies, cur, nsub, st,
                 bdc_data, requests, waiterq, i, results, log, cb_log>>
  /\ UNCHANGED order
  /\ UNCHANGED cl_vars

\* Whether the callback raises at this call.
CallbackOutcomes(completed) ==
  IF cb_raise_at = -1 THEN BOOLEAN ELSE {completed = cb_raise_at}

\* Lines 207-246, one iteration: as_completed yields future k (first the
\* ones it found finished, in no fixed order, then the others as they
\* finish) and the loop body runs.
Collect(k) ==
  /\ pc_main = "collect"
  /\ IF finished0 # {}
     THEN k \in finished0 /\ finished0' = finished0 \ {k} /\ UNCHANGED waiterq
     ELSE waiterq # <<>> /\ k = Head(waiterq) /\ waiterq' = Tail(waiterq)
                        /\ UNCHANGED finished0
  /\ i' = i + 1
  /\ \E cbRaises \in CallbackOutcomes(i + 1) :
       LET called == has_callback /\ ~TryRaises(bdc_data[k])
           raised == called /\ cbRaises
           after == process_future(results, cpfs[k], bdc_data[k], has_callback, cbRaises)
           added == Len(after) - Len(results)
       IN  /\ results' = after
           /\ log' = log \o [n \in 1..added |->
                               [unit |-> k,
                                path |-> IF TryRaises(bdc_data[k]) \/ n = 2
                                         THEN "except" ELSE "try",
                                classified |-> /\ ~TryRaises(bdc_data[k])
                                               /\ n = 1
                                               /\ ClassifierCalled(bdc_data[k]),
                                llm |-> FALSE]]
           /\ cb_log' = IF called
                        THEN Append(cb_log,
                               [completed |-> i + 1, total |-> Len(cpfs),
                                result |-> UnitResult(cpfs[k], bdc_data[k]),
                                unit |-> k, raised |-> raised,
                                out_len |-> Len(results) + 1,
                                out_last |-> UnitResult(cpfs[k], bdc_data[k])])
                        ELSE cb_log
  /\ UNCHANGED <<cpfs, max_workers, has_callback, cb_raise_at, table, replies, cur, pc_main,
                 nsub, st, bdc_data, requests>>
  /\ order' = SelectSeq(order, LAMBDA u : u # k)
  /\ UNCHANGED cl_vars

\* batch_processor_llm.py lines 259-300, one iteration, for one answer of
\* the reasoning service (asked only if the classifier gets that far), the
\* answer being one of replyPool.
CollectLLMWith(k, replyPool) ==
  /\ pc_main = "collect"
  /\ IF finished0 # {}
     THEN k \in finished0 /\ finished0' = finished0 \ {k} /\ UNCHANGED waiterq
     ELSE waiterq # <<>> /\ k = Head(waiterq) /\ waiterq' = Tail(waiterq)
                        /\ UNCHANGED finished0
  /\ i' = i + 1
  /\ \E cbRaises \in CallbackOutcomes(i + 1), reply \in replyPool :
       LET tried == ~TryRaises(bdc_data[k])
           unit == UnitResultLLM(cpfs[k], bdc_data[k], reply)
           called == has_callback /\ tried
           raised == called /\ cbRaises
           after == process_future_llm(results, cpfs[k], bdc_data[k], has_callback,
                                       cbRaises, reply)
           added == Len(after) - Len(results)
       IN  /\ results' = after
           /\ log' = log \o [n \in 1..added |->
                               [unit |-> k,
                                path |-> IF ~tried \/ n = 2 THEN "except" ELSE "try",
                                classified |-> tried /\ n = 1 /\ ClassifierCalled(bdc_data[k]),
                                llm |-> tried /\ n = 1 /\ unit.contacted]]
           /\ cb_log' = IF called
                        THEN Append(cb_log,
                               [completed |-> i + 1, total |-> Len(cpfs),
                                result |-> unit.result,
                                unit |-> k, raised |-> raised,
                                out_len |-> Len(results) + 1,
                                out_last |-> unit.result])
                        ELSE cb_log
  /\ UNCHANGED <<cpfs, max_workers, has_callback, cb_raise_at, table, replies, cur, pc_main,
                 nsub, st, bdc_data, requests>>
  /\ order' = SelectSeq(order, LAMBDA u : u # k)
  /\ UNCHANGED cl_vars

CollectLLM(k) == CollectLLMWith(k, LLMReplyPoolBatch)

\* Faulty variant: the loop is left before every future was yielded.
ReturnEarly ==
  /\ pc_main = "collect"
  /\ pc_main' = "returned"
  /\ UNCHANGED <<cpfs, max_workers, has_callback, cb_raise_at, table, replies, cur, nsub, st,
                 bdc_data, requests, finished0, waiterq, i, results, log, cb_log>>
  /\ UNCHANGED order
  /\ UNCHANGED cl_vars

\* Line 248: every future was yielded, the executor shuts down, return results.
Return ==
  /\ pc_main = "collect"
  /\ i = Len(cpfs)
  /\ pc_main' = "returned"
  /\ UNCHANGED <<cpfs, max_workers, has_callback, cb_raise_at, table, replies, cur, nsub, st,
                 bdc_data, requests, finished0, waiterq, i, results, log, cb_log>>
  /\ UNCHANGED order
  /\ UNCHANGED cl_vars

Next ==
  \/ Submit
  \/ \E k \in Units : Start(k)
  \/ \E k \in Units : Wake(k)
  \/ \E k \in Units : Respond(k)
  \/ AsCompleted
  \/ \E k \in Units : Collect(k)
  \/ Return

Spec == Init /\ [][Next]_vars

\* The same machine under the assumption the termination of process_batch
\* rests on: the calling thread and the pool's workers keep running, every
\* request ends (requests.post has timeout=30), the classifier and the
\* callback return.
\* The guard of Collect: as_completed has a finished future to yield.
CollectReady == pc_main = "collect" /\ (finished0 # {} \/ waiterq # <<>>)

\* Weak fairness of the collecting loop, WF_vars(\E k \in Units : Collect(k)),
\* with the enabling condition of Collect written out as CollectReady.
CollectFairness ==
  []<>(~CollectReady) \/ []<><<\E k \in Units : Collect(k)>>_vars

\* The batches of SpecLive: one identifier that causes a request and one
\* that does not.
BatchesLive == UNION {[1..n -> {CpfMasked, CpfShort}] : n \in 0..MaxBatch}

InitLive ==
  /\ \E batch \in BatchesLive, width \in 1..MaxWorkers, callback \in BOOLEAN :
       BatchStart(batch, width, callback)
  /\ cb_raise_at = -1
  /\ table = <<>>
  /\ ClassifierIdle

\* The provider of SpecLive: a timeout, an error status, a null body, a record.
ResponsePoolLive == {RespTimeout, RespServerError, RespNull, RespAbsolved}

RespondLive(k) == \E resp \in ResponsePoolLive : Reply(k, resp)

NextLive ==
  \/ Submit
  \/ \E k \in Units : Start(k)
  \/ \E k \in Units : Wake(k)
  \/ \E k \in Units : RespondLive(k)
  \/ AsCompleted
  \/ \E k \in Units : Collect(k)
  \/ Return

SpecLive ==
  /\ InitLive /\ [][NextLive]_vars
  /\ WF_vars(Submit)
  /\ WF_vars(\E k \in Units : Start(k))
  /\ WF_vars(\E k \in Units : Wake(k))
  /\ WF_vars(\E k \in Units : RespondLive(k))
  /\ WF_vars(AsCompleted)
  /\ CollectFairness
  /\ WF_vars(Return)

\* ------------------------------------------------ the contextual batch
\* process_batch of batch_processor_llm.py: the same pool and collecting
\* loop, with analyze_absolution_with_llm as the classifier.
PersonNoText ==
  Person("str", NomeJoao,
         <<Lawsuit("CRIMINAL", <<Party(TypeDefendant, NomeJoao, <<>>)>>,
                   CaseA, <<>>, <<>>, <<>>)>>)

RespNoText == Response("", 200, JsonDict(FALSE, "", TRUE, <<PersonNoText>>))

ResponsePoolLLM == {RespTimeout, RespNull, RespAbsolved, RespNoText}

CpfPoolLLM == {CpfMasked, CpfShort}

BatchesLLM == UNION {[1..n -> CpfPoolLLM] : n \in 0..MaxBatch}

InitLLM ==
  /\ \E batch \in BatchesLLM, width \in 1..MaxWorkers, callback \in BOOLEAN :
       BatchStart(batch, width, callback)
  /\ cb_raise_at = -1
  /\ table = <<>>
  /\ ClassifierIdle

RespondLLM(k) == \E resp \in ResponsePoolLLM : Reply(k, resp)

NextLLM ==
  \/ Submit
  \/ \E k \in Units : Start(k)
  \/ \E k \in Units : Wake(k)
  \/ \E k \in Units : RespondLLM(k)
  \/ AsCompleted
  \/ \E k \in Units : CollectLLM(k)
  \/ Return

SpecLLM == InitLLM /\ [][NextLLM]_vars

\* -------------------------- the contextual batch, service call in flight
\* The same loop with the call of line 114 as a step of its own: the
\* calling thread, which runs the loop body, waits inside analyze_with_llm
\* until the reasoning service answers or the call fails.
\* Whether the loop body of a finished future reaches line 114.
ServiceCalled(bdc) ==
  /\ ~TryRaises(bdc)
  /\ ClassifierCalled(bdc)
  /\ narrative_for_llm(bdc).built
  /\ ~NarrativeIsEmpty(narrative_for_llm(bdc).texto)

\* Lines 259-277 and 78-123: as_completed yields future k and the loop body
\* runs up to self.openai_client.chat.completions.create.
CallLLM(k) ==
  /\ pc_main = "collect"
  /\ ServiceCalled(bdc_data[k])
  /\ IF finished0 # {}
     THEN k \in finished0 /\ finished0' = finished0 \ {k} /\ UNCHANGED waiterq
     ELSE waiterq # <<>> /\ k = Head(waiterq) /\ waiterq' = Tail(waiterq)
                        /\ UNCHANGED finished0
  /\ i' = i + 1
  /\ cur' = k
  /\ pc_main' = "llm_call"
  /\ order' = SelectSeq(order, LAMBDA u : u # k)
  /\ UNCHANGED <<cpfs, max_workers, has_callback, cb_raise_at, table, replies,
                 nsub, st, bdc_data, requests, results, log, cb_log>>
  /\ UNCHANGED cl_vars

\* Lines 125-134 and 277-300: the call returns or raises, and the rest of
\* the loop body runs.
AnswerLLM ==
  /\ pc_main = "llm_call"
  /\ \E cbRaises \in CallbackOutcomes(i), reply \in LLMReplyPoolBatch :
       LET unit == UnitResultLLM(cpfs[cur], bdc_data[cur], reply)
           raised == has_callback /\ cbRaises
           after == process_future_llm(results, cpfs[cur], bdc_data[cur], has_callback,
                                       cbRaises, reply)
           added == Len(after) - Len(results)
       IN  /\ results' = after
           /\ log' = log \o [n \in 1..added |->
                               [unit |-> cur,
                                path |-> IF n = 2 THEN "except" ELSE "try",
                                classified |-> n = 1,
                                llm |-> n = 1 /\ unit.contacted]]
           /\ cb_log' = IF has_callback
                        THEN Append(cb_log,
                               [completed |-> i, total |-> Len(cpfs),
                                result |-> unit.result,
                                unit |-> cur, raised |-> raised,
                                out_len |-> Len(results) + 1,
                                out_last |-> unit.result])
                        ELSE cb_log
  /\ pc_main' = "collect"
  /\ cur' = 0
  /\ UNCHANGED <<cpfs, max_workers, has_callback, cb_raise_at, table, replies,
                 nsub, st, bdc_data, requests, finished0, waiterq, i, order>>
  /\ UNCHANGED cl_vars

\* One iteration for a future whose loop body does not reach the service.
CollectNoCall(k) == ~ServiceCalled(bdc_data[k]) /\ CollectLLM(k)

ResponsePoolStuck == {RespTimeout, RespAbsolved, RespNoText}

InitStuck ==
  /\ \E batch \in BatchesLLM, width \in 1..MaxWorkers, callback \in BOOLEAN :
       BatchStart(batch, width, callback)
  /\ cb_raise_at = 0
  /\ table = <<>>
  /\ ClassifierIdle

RespondStuck(k) == \E resp \in ResponsePoolStuck : Reply(k, resp)

NextStuck ==
  \/ Submit
  \/ \E k \in Units : Start(k)
  \/ \E k \in Units : Wake(k)
  \/ \E k \in Units : RespondStuck(k)
  \/ AsCompleted
  \/ \E k \in Units : CollectNoCall(k)
  \/ \E k \in Units : CallLLM(k)
  \/ AnswerLLM
  \/ Return

SpecStuck == InitStuck /\ [][NextStuck]_vars

\* ------------------------------------------- a deterministic provider
\* The same batch machine run against a provider whose reply is a function
\* of the identifier, with a progress callback whose behaviour is a function
\* of its arguments (it raises when called with completed = cb_raise_at).
CpfPoolDet == {CpfPlain, CpfMasked, CpfAlpha}

ResponsePoolDet == {RespTimeout, RespEmpty, RespAbsolved}

BatchesDet == UNION {[1..n -> CpfPoolDet] : n \in 0..MaxBatch}

InitDet ==
  /\ \E batch \in BatchesDet, width \in 1..MaxWorkers, callback \in BOOLEAN :
       BatchStart(batch, width, callback)
  /\ cb_raise_at \in 0..MaxBatch
  /\ has_callback \/ cb_raise_at = 0
  /\ table \in [{c \in CpfPoolDet : IsValidCpf(c)} -> ResponsePoolDet]
  /\ ClassifierIdle

RespondDet(k) == Reply(k, table[cpfs[k]])

NextDet ==
  \/ Submit
  \/ \E k \in Units : Start(k)
  \/ \E k \in Units : Wake(k)
  \/ \E k \in Units : RespondDet(k)
  \/ AsCompleted
  \/ \E k \in Units : Collect(k)
  \/ Return

SpecDet == InitDet /\ [][NextDet]_vars

\* ------------------------------------------------- the classifiers alone
\* analyze_absolution and the narrative assembly of
\* analyze_absolution_with_llm applied to one provider record.
PartiesPool ==
  {<<Party(TypeAuthor, NomeMaria, <<>>), Party(TypeDefendant, NomeJoaoPadded, <<>>)>>,
   <<Party(TypeAuthor, NomeJoao, TypeReu)>>,
   <<Party(TypeReu, NomeMaria, <<>>), Party(TypeAuthor, NomeJoao, <<>>)>>}

\* The pairs <<Decision, Content>> of a lawsuit.
FieldsPool ==
  {<<<<>>, <<>>>>, <<<<>>, TxtArquivado>>, <<TxtAbsolvido, <<>>>>,
   <<TxtAbsolvidoUpper, TxtArquivado>>, <<TxtCondenado, <<>>>>,
   <<TxtCondenado, TxtArquivado>>}

LawsuitPool ==
  {Lawsuit(c, p, CaseA, f[1], f[2], <<>>) :
     c \in {"CRIMINAL", "CIVIL"}, p \in PartiesPool, f \in FieldsPool}

LawsuitSeqs == UNION {[1..n -> LawsuitPool] : n \in 0..MaxLawsuits}

\* A Decision of exactly TruncLen characters and one a character longer,
\* both starting with "o réu foi absolvido".
TxtAtLimit == TxtAbsolvido \o [n \in 1..(TruncLen - Len(TxtAbsolvido)) |-> "x"]
TxtOverLimit == TxtAtLimit \o <<"y">>

\* Records outside the product above: decision events, a court type in
\* lower case, a blank Decision, a Decision at and over the excerpt length.
ExtraPersons ==
  {Person("str", NomeJoao,
          <<Lawsuit("CRIMINAL", <<Party(DEFENDANT, NomeJoao, <<>>)>>, CaseB,
                    TxtBlank, <<>>, <<TxtCondenado, TxtSemProvas>>)>>),
   Person("str", NomeJoao,
          <<Lawsuit("criminal", <<Party(REU, NomeJoao, <<>>)>>, CaseB,
                    TxtImprocedente, TxtExtinta, <<>>)>>),
   Person("str", NomeJoao,
          <<Lawsuit("CRIMINAL", <<Party(REU, NomeJoao, <<>>)>>, CaseB,
                    TxtAtLimit, <<>>, <<>>)>>),
   Person("str", NomeJoao,
          <<Lawsuit("CRIMINAL", <<Party(REU, NomeJoao, <<>>)>>, CaseB,
                    TxtOverLimit, <<>>, <<>>)>>)}

ClassifyInputs ==
  {JsonDict(FALSE, "", FALSE, <<>>), JsonDict(FALSE, "", TRUE, <<>>)}
  \cup {JsonDict(FALSE, "", TRUE, <<Person(kind, NomeJoao, ls)>>) :
          kind \in {"str", "missing", "null"}, ls \in LawsuitSeqs}
  \cup {JsonDict(FALSE, "", TRUE, <<pessoa>>) : pessoa \in ExtraPersons}

InitClassify ==
  /\ BatchStart(<<>>, 1, FALSE)
  /\ cb_raise_at = 0
  /\ table = <<>>
  /\ cl_pc = "input"
  /\ cl_bdc \in ClassifyInputs
  /\ cl_result = <<>>
  /\ cl_narrative = <<>>
  /\ cl_reply = <<>>
  /\ cl_llm = <<>>
  /\ sum_results = <<>>
  /\ sum_stats = <<>>

\* result = self.analyze_absolution(bdc_data, cpf)
Classify ==
  /\ cl_pc = "input"
  /\ cl_pc' = "keyword"
  /\ cl_result' = analyze_absolution(cl_bdc, CpfPlain)
  /\ UNCHANGED <<cl_bdc, cl_narrative, cl_reply, cl_llm, sum_results, sum_stats>>
  /\ UNCHANGED batch_vars

\* analyze_absolution_with_llm up to the call of analyze_with_llm
Narrate ==
  /\ cl_pc = "input"
  /\ cl_pc' = "contextual"
  /\ cl_narrative' = narrative_for_llm(cl_bdc)
  /\ UNCHANGED <<cl_bdc, cl_result, cl_reply, cl_llm, sum_results, sum_stats>>
  /\ UNCHANGED batch_vars

NextClassify == Classify \/ Narrate

SpecClassify == InitClassify /\ [][NextClassify]_vars

\* ------------------------------------------ the contextual classifier alone
\* analyze_absolution_with_llm applied to one provider record, for every
\* answer of the reasoning service.
FieldsPoolLLM == {<<<<>>, <<>>>>, <<TxtAbsolvido, <<>>>>, <<<<>>, TxtBlank>>}

LawsuitPoolLLM ==
  {Lawsuit(c, p, CaseA, f[1], f[2], <<>>) :
     c \in {"CRIMINAL", "CIVIL"}, p \in PartiesPool, f \in FieldsPoolLLM}

LawsuitSeqsLLM == UNION {[1..n -> LawsuitPoolLLM] : n \in 0..MaxLawsuits}

\* A qualifying lawsuit whose only text is its Summary, and one whose only
\* text is a decision event.
PersonSummaryOnly ==
  Person("str", NomeJoao,
         <<[Lawsuit("CRIMINAL", <<Party(DEFENDANT, NomeJoao, <<>>)>>, CaseB,
                    <<>>, <<>>, <<>>) EXCEPT !.Summary = TxtAbsolvido]>>)

PersonEventOnly ==
  Person("str", NomeJoao,
         <<Lawsuit("CRIMINAL", <<Party(DEFENDANT, NomeJoao, <<>>)>>, CaseB,
                   <<>>, <<>>, <<<<>>, TxtSemProvas>>)>>)

ContextualInputs ==
  {JsonNull, JsonDict(FALSE, "", FALSE, <<>>), JsonDict(FALSE, "", TRUE, <<>>)}
  \cup {JsonDict(FALSE, "", TRUE, <<Person(kind, NomeJoao, ls)>>) :
          kind \in {"str", "missing", "null"}, ls \in LawsuitSeqsLLM}
  \cup {JsonDict(FALSE, "", TRUE, <<pessoa>>) : pessoa \in {PersonSummaryOnly, PersonEventOnly}}

InitContextual ==
  /\ BatchStart(<<>>, 1, FALSE)
  /\ cb_raise_at = 0
  /\ table = <<>>
  /\ cl_pc = "input"
  /\ cl_bdc \in ContextualInputs
  /\ cl_result = <<>>
  /\ cl_narrative = <<>>
  /\ cl_reply = <<>>
  /\ cl_llm = <<>>
  /\ sum_results = <<>>
  /\ sum_stats = <<>>

\* result = self.analyze_absolution_with_llm(bdc_data, cpf)
ClassifyLLM ==
  /\ cl_pc = "input"
  /\ cl_pc' = "llm"
  /\ \E reply \in LLMReplyPool :
       /\ cl_reply' = reply
       /\ cl_llm' = analyze_absolution_with_llm(cl_bdc, CpfPlain, reply)
  /\ UNCHANGED <<cl_bdc, cl_result, cl_narrative, sum_results, sum_stats>>
  /\ UNCHANGED batch_vars

NextContextual == ClassifyLLM

SpecContextual == InitContextual /\ [][NextContextual]_vars

\* ------------------------------------------------------ get_summary_stats
\* What get_summary_stats reads of one result.
StatsEntry(foi, conf) == [foi_absolvido |-> foi, confianca_analise |-> conf]

\* sum(1 for r in results if r["foi_absolvido"] is <value>)
CountFoi(rs, value) == Cardinality({n \in 1..Len(rs) : rs[n].foi_absolvido = value})

\* (count / total * 100) if total > 0 else 0, as the fraction num/den
Percent(count, total) ==
  IF total > 0 THEN [num |-> count * 100, den |-> total] ELSE [num |-> 0, den |-> 1]

\* batch_processor.py: get_summary_stats
get_summary_stats(rs) ==
  [raised |-> "",
   total_processados |-> Len(rs),
   total_absolvidos |-> CountFoi(rs, "True"),
   total_nao_absolvidos |-> CountFoi(rs, "False"),
   total_sem_dados |-> CountFoi(rs, "None"),
   percentual_absolvidos |-> Percent(CountFoi(rs, "True"), Len(rs)),
   percentual_nao_absolvidos |-> Percent(CountFoi(rs, "False"), Len(rs)),
   percentual_sem_dados |-> Percent(CountFoi(rs, "None"), Len(rs))]

\* confiancas: r.get("confianca_analise", 0) for the results where
\* r.get("confianca_analise") is not None
confiancas(rs) ==
  SelectSeq([n \in 1..Len(rs) |-> rs[n].confianca_analise],
            LAMBDA c : c.t \notin {"null", "missing"})

RECURSIVE SumTenths(_)
SumTenths(cs) == IF cs = <<>> THEN 0 ELSE Head(cs).v + SumTenths(Tail(cs))

\* batch_processor_llm.py: get_summary_stats.  sum(confiancas) raises
\* TypeError when a confidence is a string.
get_summary_stats_llm(rs) ==
  LET cs == confiancas(rs)
      base == get_summary_stats(rs)
  IN  IF \E n \in 1..Len(cs) : cs[n].t = "str"
      THEN [raised |-> "TypeError"]
      ELSE [raised |-> "",
            total_processados |-> base.total_processados,
            total_absolvidos |-> base.total_absolvidos,
            total_nao_absolvidos |-> base.total_nao_absolvidos,
            total_sem_dados |-> base.total_sem_dados,
            percentual_absolvidos |-> base.percentual_absolvidos,
            percentual_nao_absolvidos |-> base.percentual_nao_absolvidos,
            percentual_sem_dados |-> base.percentual_sem_dados,
            confianca_media_ia |->
              IF cs = <<>> THEN [num |-> 0, den |-> 1]
              ELSE [num |-> SumTenths(cs), den |-> 10 * Len(cs)],
            analises_com_alta_confianca |->
              Cardinality({n \in 1..Len(cs) : cs[n].v >= 800}),
            analises_com_baixa_confianca |->
              Cardinality({n \in 1..Len(cs) : cs[n].v < 500})]

\* The results the collections are made of: the three outcomes of the
\* keyword path, and results of the contextual path with an integer, a
\* fractional, a null and a textual confidence.
StatsEntryPool ==
  {StatsEntry("True", Conf("missing", 0)), StatsEntry("False", Conf("missing", 0)),
   StatsEntry("None", Conf("missing", 0)), StatsEntry("True", Conf("int", 850)),
   StatsEntry("False", Conf("float", 405)), StatsEntry("None", Conf("null", 0)),
   StatsEntry("True", Conf("str", 0))}

\* 3 absolved, 4 not absolved, 3 unknown
TenResults ==
  [n \in 1..10 |-> StatsEntry(IF n <= 3 THEN "True" ELSE IF n <= 7 THEN "False" ELSE "None",
                              Conf("missing", 0))]

StatsInputs ==
  UNION {[1..n -> StatsEntryPool] : n \in 0..MaxResults} \cup {TenResults}

InitStats ==
  /\ BatchStart(<<>>, 1, FALSE)
  /\ cb_raise_at = 0
  /\ table = <<>>
  /\ cl_pc = "collection"
  /\ cl_bdc = Pending
  /\ cl_result = <<>>
  /\ cl_narrative = <<>>
  /\ cl_reply = <<>>
  /\ cl_llm = <<>>
  /\ sum_results \in StatsInputs
  /\ sum_stats = <<>>

\* stats = analyzer.get_summary_stats(results), batch_processor.py
Summarize ==
  /\ cl_pc = "collection"
  /\ cl_pc' = "summary"
  /\ sum_stats' = get_summary_stats(sum_results)
  /\ UNCHANGED <<cl_bdc, cl_result, cl_narrative, cl_reply, cl_llm, sum_results>>
  /\ UNCHANGED batch_vars

\* stats = analyzer.get_summary_stats(results), batch_processor_llm.py
SummarizeLLM ==
  /\ cl_pc = "collection"
  /\ cl_pc' = "summary_llm"
  /\ sum_stats' = get_summary_stats_llm(sum_results)
  /\ UNCHANGED <<cl_bdc, cl_result, cl_narrative, cl_reply, cl_llm, sum_results>>
  /\ UNCHANGED batch_vars

NextStats == Summarize \/ SummarizeLLM

SpecStats == InitStats /\ [][NextStats]_vars

\* ------------------------------- the contextual batch and its statistics
\* process_batch of batch_processor_llm.py followed by get_summary_stats on
\* the list it returned.
LLMReplyPoolSummary == {ReplyFailed, ReplyAbsolved, ReplyOutcomeText}

ResponsePoolSummary == {RespTimeout, RespAbsolved}

InitSummary ==
  /\ \E batch \in BatchesLLM, width \in 1..MaxWorkers, callback \in BOOLEAN :
       BatchStart(batch, width, callback)
  /\ cb_raise_at = 0
  /\ table = <<>>
  /\ ClassifierIdle

RespondSummary(k) == \E resp \in ResponsePoolSummary : Reply(k, resp)

CollectSummary(k) == CollectLLMWith(k, LLMReplyPoolSummary)

\* What get_summary_stats reads of the results process_batch returned.
StatsView(rs) ==
  [n \in 1..Len(rs) |-> StatsEntry(rs[n].foi_absolvido, rs[n].confianca_analise)]

\* stats = analyzer.get_summary_stats(results) on the returned list
SummarizeReturned ==
  /\ pc_main = "returned"
  /\ cl_pc = "idle"
  /\ cl_pc' = "summary_llm"
  /\ sum_results' = StatsView(results)
  /\ sum_stats' = get_summary_stats_llm(StatsView(results))
  /\ UNCHANGED <<cl_bdc, cl_result, cl_narrative, cl_reply, cl_llm>>
  /\ UNCHANGED batch_vars

NextSummary ==
  \/ Submit
  \/ \E k \in Units : Start(k)
  \/ \E k \in Units : Wake(k)
  \/ \E k \in Units : RespondSummary(k)
  \/ AsCompleted
  \/ \E k \in Units : CollectSummary(k)
  \/ Return
  \/ SummarizeReturned

SpecSummary == InitSummary /\ [][NextSummary]_vars

\* ----------------------------------------------------------------- claims
\* The multiset of the elements of a sequence.
SeqToBag(seq) ==
  [x \in {seq[n] : n \in DOMAIN seq} |-> Cardinality({n \in DOMAIN seq : seq[n] = x})]

\* Digits of an identifier, counted in place.
DigitCount(cpf) == Cardinality({n \in 1..Len(cpf) : cpf[n] \in Digits})

\* The entries of results that unit k contributed.
EntriesOf(k) == {j \in 1..Len(log) : log[j].unit = k}

\* C1: the list process_batch returns has exactly one result per input
\* identifier: as many results as identifiers, and the multiset of the
\* results' cpf fields is the multiset of the input.
C1_OneResultPerIdentifier ==
  pc_main = "returned" =>
    /\ Len(results) = Len(cpfs)
    /\ SeqToBag([j \in 1..Len(results) |-> results[j].cpf]) = SeqToBag(cpfs)

\* C2: an identifier that does not reduce to exactly 11 digits never causes
\* a provider request, and the result built for it has unknown outcome and
\* the status "erro_api: CPF inválido".
C2_InvalidIdentifierNoRequest ==
  \A k \in Units :
    DigitCount(cpfs[k]) # 11 =>
      /\ requests[k] = 0
      /\ st[k] \notin {"sleeping", "requesting"}
      /\ \A j \in EntriesOf(k) :
           log[j].path = "try" =>
             /\ results[j].status = [tag |-> "erro_api", detail |-> "CPF inválido"]
             /\ results[j].foi_absolvido = "None"
             /\ results[j].cpf = cpfs[k]
      /\ pc_main = "returned" => \E j \in EntriesOf(k) : log[j].path = "try"

\* C2 witness: a returned batch holding an invalid identifier (with its
\* result) next to a valid one that was requested.
C2_Witness ==
  /\ pc_main = "returned"
  /\ \E k \in Units :
       /\ DigitCount(cpfs[k]) # 11
       /\ \E j \in EntriesOf(k) : results[j].status.detail = "CPF inválido"
  /\ \E k \in Units : requests[k] = 1

\* The status tag a unit's own fetch value calls for.
ExpectedTag(bdc) ==
  IF bdc.t = "null" THEN "excecao"
  ELSE IF bdc.hasError THEN "erro_api"
  ELSE IF ~bdc.hasResult \/ bdc.Result = <<>> THEN "dados_nao_encontrados"
  ELSE "sucesso"

\* A unit failed: its fetch returned an error, or its future's value made
\* the loop body raise.
UnitFailed(k) == st[k] = "done" /\ (bdc_data[k].t \in {"errdict", "null"})

\* C3: failure isolation.  process_batch returns only with a result for
\* every identifier, each carrying the status its own fetch value calls
\* for, whatever happened to the other units of the batch.
C3_FailureIsolation ==
  pc_main = "returned" =>
    \A k \in Units :
      \E j \in EntriesOf(k) :
        /\ results[j].cpf = cpfs[k]
        /\ results[j].status.tag = ExpectedTag(bdc_data[k])
        /\ (results[j].status.tag = "sucesso") = (results[j].foi_absolvido # "None")

\* C3 witness: a returned batch in which one unit raised in the loop body,
\* and a sibling was classified with success.
C3_Witness ==
  /\ pc_main = "returned"
  /\ \E k \in Units : bdc_data[k].t = "null"
  /\ \E k \in Units : \E j \in EntriesOf(k) : results[j].status.tag = "sucesso"

\* C4: with a progress callback, by the time process_batch returns the
\* callback was called exactly once for each input identifier.
C4_CallbackOncePerUnit ==
  (pc_main = "returned" /\ has_callback) =>
    \A k \in Units : Cardinality({n \in 1..Len(cb_log) : cb_log[n].unit = k}) = 1

\* C5: at every call of the progress callback, total is the input length,
\* completed is the number of results appended so far (strictly increasing,
\* never above total) and the result passed is the last one appended.
C5_CallbackArguments ==
  \A n \in 1..Len(cb_log) :
    /\ cb_log[n].total = Len(cpfs)
    /\ cb_log[n].completed = cb_log[n].out_len
    /\ cb_log[n].completed <= cb_log[n].total
    /\ cb_log[n].result = cb_log[n].out_last
    /\ n > 1 => cb_log[n - 1].completed < cb_log[n].completed

\* C6: the units in flight (in their pacing delay or awaiting the provider)
\* never outnumber max_workers.
C6_BoundedConcurrency ==
  Cardinality({k \in Units : st[k] \in {"sleeping", "requesting"}}) <= max_workers

\* C6 witness: the pool is saturated while another unit waits in the queue.
C6_Witness ==
  /\ Cardinality({k \in Units : st[k] \in {"sleeping", "requesting"}}) = max_workers
  /\ \E k \in Units : st[k] = "queued"

\* C7: no retries.  A unit never issues a second request, and in a returned
\* batch every identifier with 11 digits was requested exactly once, failed
\* or not.
C7_NoRetries ==
  \A k \in Units :
    /\ requests[k] <= 1
    /\ (pc_main = "returned" /\ DigitCount(cpfs[k]) = 11) => requests[k] = 1

\* C7 witness: a returned batch with a request that failed, made once.
C7_Witness ==
  /\ pc_main = "returned"
  /\ \E k \in Units :
       /\ bdc_data[k].t = "errdict"
       /\ bdc_data[k].error = "ReadTimeout"
       /\ requests[k] = 1

\* The results a run of width 1 that collects in submission order gives.
RECURSIVE SequentialRun(_, _)
SequentialRun(n, res) ==
  IF n > Len(cpfs) THEN res
  ELSE SequentialRun(n + 1,
         process_future(res, cpfs[n],
                        IF IsValidCpf(cpfs[n]) THEN FetchReturn(cpfs[n], table[cpfs[n]])
                        ELSE ErrDict(cpfs[n], "CPF inválido"),
                        has_callback, n = cb_raise_at))

\* C8: width independence.  Against a deterministic provider a run with a
\* wider pool returns the same multiset of results as the run of width 1.
C8_WidthIndependence ==
  (pc_main = "returned" /\ max_workers > 1) =>
    SeqToBag(results) = SeqToBag(SequentialRun(1, <<>>))

\* The same comparison for the runs in which the progress callback (if any)
\* returns normally at every call.
C8_SameBagWhenCallbackReturns ==
  (pc_main = "returned" /\ cb_raise_at = 0) =>
    SeqToBag(results) = SeqToBag(SequentialRun(1, <<>>))

\* The record with the lawsuits of other court types removed.
WithoutOtherCourts(bdc) ==
  IF bdc.Result = <<>> THEN bdc
  ELSE [bdc EXCEPT !.Result =
          <<[bdc.Result[1] EXCEPT !.Lawsuits =
               SelectSeq(bdc.Result[1].Lawsuits, LAMBDA proc : proc.CourtType = "CRIMINAL")]>>]

\* C9: a lawsuit whose court type is not CRIMINAL never counts: the keyword
\* result and the narrative assembled for the reasoning service are what
\* they would be without such lawsuits, and total_processos_criminais
\* never exceeds the number of CRIMINAL lawsuits.
C9_OnlyCriminalCounts ==
  /\ cl_pc = "keyword" =>
       /\ cl_result = analyze_absolution(WithoutOtherCourts(cl_bdc), CpfPlain)
       /\ cl_result.total_processos_criminais
            <= (IF cl_bdc.Result = <<>> THEN 0
                ELSE Len(WithoutOtherCourts(cl_bdc).Result[1].Lawsuits))
  /\ cl_pc = "contextual" =>
       cl_narrative = narrative_for_llm(WithoutOtherCourts(cl_bdc))

\* C9 witness: a CIVIL lawsuit naming the person as defendant with an
\* absolving Decision, next to a CRIMINAL one without: not absolved, one
\* proceeding counted.
C9_Witness ==
  /\ cl_pc = "keyword"
  /\ cl_bdc.Result # <<>>
  /\ \E n \in 1..Len(cl_bdc.Result[1].Lawsuits) :
       LET proc == cl_bdc.Result[1].Lawsuits[n]
       IN  /\ proc.CourtType = "CIVIL"
           /\ is_reu(NomeOf(cl_bdc.Result[1]), proc)
           /\ proc.Decision = TxtAbsolvido
  /\ cl_result.total_processos_criminais = 1
  /\ cl_result.foi_absolvido = "False"

\* The lawsuits of a record that qualify, by position.
QualifyingAt(bdc) ==
  {n \in 1..Len(bdc.Result[1].Lawsuits) :
     Qualifies(NomeOf(bdc.Result[1]), bdc.Result[1].Lawsuits[n])}

\* A record whose single qualifying lawsuit has a Decision with the stem
\* 'absolv' (in any letter case).
SingleAbsolvingDecision(bdc) ==
  /\ bdc.Result # <<>>
  /\ bdc.Result[1].nameKind = "str"
  /\ Cardinality(QualifyingAt(bdc)) = 1
  /\ \A n \in QualifyingAt(bdc) :
       Contains(<<"a","b","s","o","l","v">>, Lower(bdc.Result[1].Lawsuits[n].Decision))

\* C10: for such a record the keyword classifier returns exactly one
\* finding, of type "Absolvição", with foi_absolvido true and
\* total_absolvicoes = 1.
C10_AbsolvedDecision ==
  (cl_pc = "keyword" /\ SingleAbsolvingDecision(cl_bdc)) =>
    /\ Len(cl_result.detalhes_absolvicoes) = 1
    /\ cl_result.detalhes_absolvicoes[1].tipo_decisao = "Absolvição"
    /\ cl_result.foi_absolvido = "True"
    /\ cl_result.total_absolvicoes = 1
    /\ cl_result.status.tag = "sucesso"

\* C10 witness: the classified record has one qualifying lawsuit whose
\* Decision is "RÉU ABSOLVIDO" and whose Content would match too.
C10_Witness ==
  /\ cl_pc = "keyword"
  /\ SingleAbsolvingDecision(cl_bdc)
  /\ \E n \in QualifyingAt(cl_bdc) :
       /\ cl_bdc.Result[1].Lawsuits[n].Decision = TxtAbsolvidoUpper
       /\ cl_bdc.Result[1].Lawsuits[n].Content = TxtArquivado
  /\ Len(cl_result.detalhes_absolvicoes) = 1

\* Whether a text holds a term of the absolution vocabulary.
HasTerm(text) ==
  \E n \in 1..Len(palavras_absolvicao) : Contains(palavras_absolvicao[n], Lower(text))

\* A record with a named person, at least one qualifying lawsuit, and no
\* vocabulary term in any scanned field of a qualifying lawsuit.
QualifyingWithoutTerm(bdc) ==
  /\ bdc.Result # <<>>
  /\ bdc.Result[1].nameKind # "null"
  /\ QualifyingAt(bdc) # {}
  /\ \A n \in QualifyingAt(bdc) :
       LET proc == bdc.Result[1].Lawsuits[n]
       IN  /\ \A f \in {proc.Decision, proc.Content, proc.Description, proc.Summary} :
                ~HasTerm(f)
           /\ \A j \in 1..Len(proc.Decisions) : ~HasTerm(proc.Decisions[j])

\* C11: qualifying lawsuits without any vocabulary term give foi_absolvido
\* false (not unknown), total_absolvicoes = 0 and status success.
C11_NoTermNotAbsolved ==
  (cl_pc = "keyword" /\ QualifyingWithoutTerm(cl_bdc)) =>
    /\ cl_result.foi_absolvido = "False"
    /\ cl_result.total_absolvicoes = 0
    /\ cl_result.detalhes_absolvicoes = <<>>
    /\ cl_result.status = [tag |-> "sucesso", detail |-> ""]

\* C11 witness: a classified record whose qualifying lawsuit has the
\* Decision "réu condenado", and the outcome is false.
C11_Witness ==
  /\ cl_pc = "keyword"
  /\ QualifyingWithoutTerm(cl_bdc)
  /\ \E n \in QualifyingAt(cl_bdc) : cl_bdc.Result[1].Lawsuits[n].Decision = TxtCondenado
  /\ cl_result.foi_absolvido = "False"
  /\ cl_result.total_processos_criminais >= 1

\* A record with a non-empty result set and no qualifying lawsuit.
ZeroQualifying(bdc) ==
  /\ bdc.hasResult
  /\ bdc.Result # <<>>
  /\ bdc.Result[1].nameKind = "str"
  /\ QualifyingAt(bdc) = {}

\* C12: with zero qualifying lawsuits the keyword classifier's outcome is
\* unknown (None), not false.
C12_ZeroQualifyingUnknown ==
  (cl_pc = "keyword" /\ ZeroQualifying(cl_bdc)) => cl_result.foi_absolvido = "None"

\* What the code returns in that case: outcome false with status success.
C12_ZeroQualifyingIsFalse ==
  (cl_pc = "keyword" /\ ZeroQualifying(cl_bdc)) =>
    /\ cl_result.foi_absolvido = "False"
    /\ cl_result.total_processos_criminais = 0
    /\ cl_result.status.tag = "sucesso"

\* The positions of a collection whose outcome is a given value.
WithOutcome(rs, value) == {n \in 1..Len(rs) : rs[n].foi_absolvido = value}

\* A summary that is right for the collection it was computed from.
SummaryRight(rs, stats) ==
  /\ stats.raised = ""
  /\ stats.total_processados = Len(rs)
  /\ stats.total_absolvidos = Cardinality(WithOutcome(rs, "True"))
  /\ stats.total_nao_absolvidos = Cardinality(WithOutcome(rs, "False"))
  /\ stats.total_sem_dados = Cardinality(WithOutcome(rs, "None"))
  /\ IF Len(rs) = 0
     THEN /\ stats.percentual_absolvidos.num = 0
          /\ stats.percentual_nao_absolvidos.num = 0
          /\ stats.percentual_sem_dados.num = 0
     ELSE /\ stats.percentual_absolvidos.num * Len(rs)
               = 100 * stats.total_absolvidos * stats.percentual_absolvidos.den
          /\ stats.percentual_nao_absolvidos.num * Len(rs)
               = 100 * stats.total_nao_absolvidos * stats.percentual_nao_absolvidos.den
          /\ stats.percentual_sem_dados.num * Len(rs)
               = 100 * stats.total_sem_dados * stats.percentual_sem_dados.den

\* C13: for any result collection both get_summary_stats return the counts
\* of absolved / not absolved / unknown results and their percentages of
\* the collection size, all 0 on the empty collection, without raising.
C13_SummaryStats ==
  (cl_pc \in {"summary", "summary_llm"}) => SummaryRight(sum_results, sum_stats)

\* The same for the keyword version alone, and for the contextual version
\* on collections without a textual confidence.
C13_SummaryStatsNumeric ==
  /\ cl_pc = "summary" => SummaryRight(sum_results, sum_stats)
  /\ (cl_pc = "summary_llm"
        /\ \A n \in 1..Len(sum_results) : sum_results[n].confianca_analise.t # "str")
       => SummaryRight(sum_results, sum_stats)
  /\ (cl_pc = "summary" /\ sum_results = TenResults) =>
       /\ sum_stats.percentual_absolvidos = [num |-> 300, den |-> 10]
       /\ sum_stats.percentual_nao_absolvidos = [num |-> 400, den |-> 10]
       /\ sum_stats.percentual_sem_dados = [num |-> 300, den |-> 10]

\* A request that did not end with a parseable success reply, and the
\* text that names what went wrong.
RequestFailed(resp) == resp.exc # "" \/ resp.status >= 400 \/ resp.body.t = "invalid"

FailureDetail(resp) ==
  IF resp.exc # "" THEN resp.exc
  ELSE IF resp.status >= 400 THEN "HTTPError"
  ELSE "JSONDecodeError"

\* C14: fetch_single_cpf_data never raises.  Every finished future holds a
\* value, and when its request failed (transport error, timeout, error
\* status, unparseable body) the value is the error dict with the
\* identifier as given and the detail of the failure.
C14_FetchNeverRaises ==
  \A k \in Units :
    st[k] = "done" =>
      /\ bdc_data[k].t \in {"errdict", "null", "dict"}
      /\ (replies[k] # NoReply /\ RequestFailed(replies[k])) =>
           bdc_data[k] = [t |-> "errdict", cpf |-> cpfs[k],
                          error |-> FailureDetail(replies[k]), hasError |-> TRUE,
                          hasResult |-> FALSE, Result |-> <<>>]

\* C14 witness: one batch in which a request timed out and another was
\* answered with an error status, both futures finished with error dicts.
C14_Witness ==
  \E k, j \in Units :
    /\ st[k] = "done" /\ replies[k] = RespTimeout /\ bdc_data[k].error = "ReadTimeout"
    /\ st[j] = "done" /\ replies[j] = RespServerError /\ bdc_data[j].error = "HTTPError"
    /\ bdc_data[j].cpf = CpfMasked

\* The lawsuits of a record that pass the contextual filter, by position.
QualifyingLLMAt(bdc) ==
  {n \in 1..Len(bdc.Result[1].Lawsuits) :
     QualifiesLLM(NomeOf(bdc.Result[1]), bdc.Result[1].Lawsuits[n])}

\* A record with a named person none of whose qualifying lawsuits has a
\* non-empty Content, Decision, Description or decision event.
EmptyNarrative(bdc) ==
  /\ bdc.hasResult
  /\ bdc.Result # <<>>
  /\ bdc.Result[1].nameKind # "null"
  /\ \A n \in QualifyingLLMAt(bdc) :
       LET proc == bdc.Result[1].Lawsuits[n]
       IN  /\ proc.Content = <<>> /\ proc.Decision = <<>> /\ proc.Description = <<>>
           /\ \A j \in 1..Len(proc.Decisions) : proc.Decisions[j] = <<>>

\* C16: with an empty narrative the contextual result has outcome unknown,
\* confidence 0 and the rationale "Nenhuma decisão disponível para análise",
\* and the reasoning service is not contacted.
C16_EmptyNarrativeNoCall ==
  (cl_pc = "llm" /\ EmptyNarrative(cl_bdc)) =>
    /\ ~cl_llm.contacted
    /\ cl_llm.result.foi_absolvido = "None"
    /\ cl_llm.result.confianca_analise = Conf("int", 0)
    /\ cl_llm.result.justificativa = Text("Nenhuma decisão disponível para análise", "")

\* C16 witness: the person's one qualifying lawsuit has text in Summary
\* only, the service would have answered "absolved", and was not asked.
C16_Witness ==
  /\ cl_pc = "llm"
  /\ cl_bdc.Result = <<PersonSummaryOnly>>
  /\ EmptyNarrative(cl_bdc)
  /\ cl_reply = ReplyAbsolved
  /\ ~cl_llm.contacted
  /\ cl_llm.result.total_processos_criminais = 1

\* A reply that is a well-formed structured object: outcome true, false or
\* null, an integer confidence from 0 to 100, rationale and detail texts.
WellFormedReply(reply) ==
  /\ reply.kind = "object"
  /\ reply.foi \in {"True", "False", "None"}
  /\ reply.conf.t = "int" /\ reply.conf.v \in {10 * n : n \in 0..100}
  /\ reply.just # Missing /\ reply.det # Missing

\* C17: whenever the call fails or the reply is not the expected structured
\* object, the result has outcome unknown, confidence 0 and a rationale
\* carrying the failure detail.
C17_ServiceFailureUnknown ==
  (cl_pc = "llm" /\ cl_llm.contacted /\ ~WellFormedReply(cl_reply)) =>
    /\ cl_llm.result.foi_absolvido = "None"
    /\ cl_llm.result.confianca_analise = Conf("int", 0)
    /\ cl_llm.result.justificativa.detail # ""

\* The same for the replies the code tells apart: a failed call, a content
\* that is not JSON, a JSON value that is not an object.
C17_CaughtFailuresUnknown ==
  (cl_pc = "llm" /\ cl_llm.contacted /\ cl_reply.kind # "object") =>
    /\ cl_llm.result.foi_absolvido = "None"
    /\ cl_llm.result.confianca_analise = Conf("int", 0)
    /\ cl_llm.result.justificativa.detail
         = (IF cl_reply.kind = "nonobject" THEN "AttributeError" ELSE cl_reply.detail)

\* The fetch of a unit returned the error dict (or a body with an "error" key).
FetchFailed(k) == bdc_data[k].hasError

\* What C15 says of the n-th result appended, whichever the classifier.
ErrorMapsToApiError(n) ==
  LET k == log[n].unit
  IN  /\ FetchFailed(k) =>
           /\ ~log[n].classified
           /\ ~log[n].llm
           /\ results[n].foi_absolvido = "None"
           /\ results[n].total_processos_criminais = 0
           /\ log[n].path = "try" =>
                results[n].status = [tag |-> "erro_api", detail |-> bdc_data[k].error]
      /\ log[n].classified => bdc_data[k].t = "dict" /\ ~FetchFailed(k)
      /\ log[n].llm => log[n].classified

\* C15: a unit whose fetch returned an error gets an api-error result with
\* unknown outcome and zero counts, built in the try block without calling
\* the classifier or the reasoning service; the classifier runs only for
\* units whose fetch succeeded.
C15_FetchErrorSkipsClassifier ==
  /\ Len(log) = Len(results)
  /\ \A n \in 1..Len(log) :
       /\ ErrorMapsToApiError(n)
       /\ FetchFailed(log[n].unit) => results[n].confianca_analise = Conf("int", 0)
  /\ \A k \in Units :
       (FetchFailed(k) /\ \E n \in 1..Len(log) : log[n].unit = k) =>
         \E n \in 1..Len(log) :
           log[n].unit = k /\ log[n].path = "try" /\ results[n].status.tag = "erro_api"

\* The same for the keyword batch.
C15_KeywordFetchErrorSkipsClassifier ==
  /\ Len(log) = Len(results)
  /\ \A n \in 1..Len(log) :
       /\ ErrorMapsToApiError(n)
       /\ FetchFailed(log[n].unit) => results[n].total_absolvicoes = 0

\* C15 witness: a returned contextual batch in which one request timed out
\* (api-error result, no classifier) and another unit was classified with
\* the reasoning service.
C15_Witness ==
  /\ pc_main = "returned"
  /\ \E n, m \in 1..Len(log) :
       /\ replies[log[n].unit] = RespTimeout
       /\ results[n].status = [tag |-> "erro_api", detail |-> "ReadTimeout"]
       /\ ~log[n].classified
       /\ log[m].classified /\ log[m].llm

\* C18: every result of the contextual process_batch carries a confidence
\* that is an integer from 0 to 100.
C18_ConfidenceInRange ==
  \A n \in 1..Len(results) :
    /\ results[n].confianca_analise.t = "int"
    /\ results[n].confianca_analise.v \in {10 * c : c \in 0..100}

\* The results the code builds itself carry confidence 0: api errors,
\* exceptions, missing data, empty narratives and failed service calls.
C18_OwnResultsZero ==
  \A n \in 1..Len(results) :
    (~log[n].llm \/ results[n].justificativa.fixed = "Erro na análise IA: ") =>
      results[n].confianca_analise = Conf("int", 0)

\* The units whose future as_completed has yielded to the collecting loop.
Yielded ==
  {k \in Units :
     /\ pc_main \in {"collect", "returned"}
     /\ st[k] = "done"
     /\ k \notin finished0
     /\ \A n \in 1..Len(waiterq) : waiterq[n] # k}

\* C19: no lost updates.  When two or more units of a pool of width 2 or
\* more have completed, every completion the loop has taken up is reflected
\* exactly once in results and exactly once in the counter.
C19_NoLostUpdates ==
  (max_workers >= 2 /\ Cardinality(Yielded) >= 2) =>
    /\ i = Cardinality(Yielded)
    /\ \A k \in Yielded : Cardinality(EntriesOf(k)) = 1

\* No completion is lost: each is counted once and has at least one entry,
\* and exactly one unless the progress callback raised for it.
C19_NoCompletionLost ==
  /\ i = Cardinality(Yielded)
  /\ \A k \in Yielded :
       /\ EntriesOf(k) # {}
       /\ (\A n \in 1..Len(cb_log) : cb_log[n].unit = k => ~cb_log[n].raised)
            => Cardinality(EntriesOf(k)) = 1

\* Single writer: results and the counter change only in a step of the
\* collecting loop, which appends and adds one; no worker step touches them.
C19_SingleWriter ==
  [][(results' # results \/ i' # i) =>
       /\ pc_main = "collect"
       /\ st' = st /\ bdc_data' = bdc_data
       /\ i' = i + 1
       /\ Len(results') > Len(results)
       /\ SubSeq(results', 1, Len(results)) = results]_vars

\* C20: termination.  Every process_batch invocation eventually returns,
\* and when it has returned every unit has completed and been collected.
C20_Termination ==
  /\ <>(pc_main = "returned")
  /\ [](pc_main = "returned" =>
          /\ \A k \in Units : st[k] = "done" /\ k \in Yielded /\ EntriesOf(k) # {}
          /\ i = Len(cpfs))

\* C20 witness: a returned batch of MaxBatch identifiers, one of whose
\* requests timed out and one was answered.
C20_Witness ==
  /\ pc_main = "returned"
  /\ Len(cpfs) = MaxBatch
  /\ \E k, j \in Units : replies[k] = RespTimeout /\ replies[j] = RespAbsolved
  /\ \A k \in Units : st[k] = "done"

\* The external call of unit a is pending: its provider request, or the
\* reasoning-service call made for it.
ExternalCallPending(a) ==
  st[a] = "requesting" \/ (pc_main = "llm_call" /\ cur = a)

\* The finished future of unit b is with a collecting loop that is running:
\* either the loop has not started, or it is between iterations and
\* as_completed holds the future.
CanBeTakenUp(b) ==
  \/ pc_main = "submit"
  \/ /\ pc_main = "collect"
     /\ b \in finished0 \/ \E n \in 1..Len(waiterq) : waiterq[n] = b

\* C21: a stuck external call blocks only the worker slot of its own unit.
\* With width >= 2, while the call of one unit is pending (and no other
\* call is), every other unit can still run in the pool, and every other
\* unit that finished has its result appended or can be taken up by the
\* collecting loop at once.
C21_StuckCallBlocksOneSlot ==
  \A a \in Units :
    (max_workers >= 2 /\ ExternalCallPending(a)
       /\ \A c \in Units \ {a} : ~ExternalCallPending(c)) =>
      \A b \in Units \ {a} :
        /\ (st[b] = "queued" /\ \A c \in Units \ {a} : st[c] # "sleeping")
             => WorkerFree(Running, max_workers)
        /\ st[b] = "done" => (EntriesOf(b) # {} \/ CanBeTakenUp(b))

\* The same for a pending provider request alone, which a pool worker waits
\* for.
C21_StuckRequestBlocksOneSlot ==
  \A a \in Units :
    (max_workers >= 2 /\ st[a] = "requesting" /\ pc_main # "llm_call"
       /\ \A c \in Units \ {a} : st[c] # "requesting") =>
      \A b \in Units \ {a} :
        /\ (st[b] = "queued" /\ \A c \in Units \ {a} : st[c] # "sleeping")
             => WorkerFree(Running, max_workers)
        /\ st[b] = "done" => (EntriesOf(b) # {} \/ CanBeTakenUp(b))

\* C22: the keyword classifier gives at most one finding per qualifying
\* lawsuit: in every result total_absolvicoes is the length of
\* detalhes_absolvicoes and is at most total_processos_criminais.
C22_AtMostOneFindingPerLawsuit ==
  cl_pc = "keyword" =>
    /\ cl_result.total_absolvicoes = Len(cl_result.detalhes_absolvicoes)
    /\ cl_result.total_absolvicoes <= cl_result.total_processos_criminais

\* The same for every result process_batch appends.
C22_BatchResults ==
  \A n \in 1..Len(results) :
    /\ results[n].total_absolvicoes = Len(results[n].detalhes_absolvicoes)
    /\ results[n].total_absolvicoes <= results[n].total_processos_criminais

\* C22 witness: two qualifying lawsuits, each with a term in its Decision
\* and another in its Content, give two findings.
C22_Witness ==
  /\ cl_pc = "keyword"
  /\ cl_bdc.Result # <<>>
  /\ cl_bdc.Result[1].nameKind = "str"
  /\ Cardinality(QualifyingAt(cl_bdc)) = 2
  /\ \A n \in QualifyingAt(cl_bdc) :
       /\ HasTerm(cl_bdc.Result[1].Lawsuits[n].Decision)
       /\ HasTerm(cl_bdc.Result[1].Lawsuits[n].Content)
  /\ cl_result.total_processos_criminais = 2
  /\ cl_result.total_absolvicoes = 2

\* A lawsuit with a vocabulary term in at least one of the fields scanned.
LawsuitHasTerm(proc) ==
  \E j \in 1..Len(campos_decisao(proc)) : HasTerm(campos_decisao(proc)[j])

\* The qualifying lawsuits of a record that hold a term, by position.
MatchingAt(bdc) ==
  {n \in QualifyingAt(bdc) : LawsuitHasTerm(bdc.Result[1].Lawsuits[n])}

\* A record analyze_absolution scans: a result set with a person whose
\* name is a string or absent.
Scanned(bdc) == bdc.hasResult /\ bdc.Result # <<>> /\ bdc.Result[1].nameKind # "null"

\* C23: each qualifying lawsuit is scanned on its own across all its
\* fields: the number of findings is the number of qualifying lawsuits with
\* a term in at least one scanned field, whatever their case numbers.
C23_FindingPerMatchingLawsuit ==
  (cl_pc = "keyword" /\ Scanned(cl_bdc)) =>
    Len(cl_result.detalhes_absolvicoes) = Cardinality(MatchingAt(cl_bdc))

\* What the code guarantees: never more findings than matching lawsuits,
\* as many when at most one lawsuit qualifies, and at least one when any
\* lawsuit matches.
C23_FindingsBounded ==
  (cl_pc = "keyword" /\ Scanned(cl_bdc)) =>
    /\ Len(cl_result.detalhes_absolvicoes) <= Cardinality(MatchingAt(cl_bdc))
    /\ Cardinality(QualifyingAt(cl_bdc)) <= 1 =>
         Len(cl_result.detalhes_absolvicoes) = Cardinality(MatchingAt(cl_bdc))
    /\ MatchingAt(cl_bdc) # {} => Len(cl_result.detalhes_absolvicoes) >= 1

\* The excerpts of the findings of the keyword result.
Excerpts == {cl_result.detalhes_absolvicoes[n].trecho_decisao :
               n \in 1..Len(cl_result.detalhes_absolvicoes)}

\* The record classified has a single lawsuit, with this Decision.
DecisionIs(text) ==
  /\ cl_bdc.Result # <<>>
  /\ Len(cl_bdc.Result[1].Lawsuits) = 1
  /\ cl_bdc.Result[1].Lawsuits[1].Decision = text

\* C24: every excerpt (trecho_decisao) is at most 200 characters long, the
\* ellipsis of a truncated field included; a field of 200 characters or
\* fewer is kept unchanged.
C24_ExcerptAtMost200 ==
  cl_pc = "keyword" =>
    /\ \A e \in Excerpts : Len(e) <= 200
    /\ DecisionIs(TxtAtLimit) => Excerpts = {TxtAtLimit}

\* What the code gives: the first 200 characters followed by "..." for a
\* longer field, 203 characters in all, and the field itself otherwise.
C24_ExcerptAtMost203 ==
  cl_pc = "keyword" =>
    /\ \A e \in Excerpts :
         /\ Len(e) <= 203
         /\ Len(e) > 200 => SubSeq(e, 201, 203) = <<".", ".", ".">>
    /\ DecisionIs(TxtAtLimit) => Excerpts = {TxtAtLimit}
    /\ DecisionIs(TxtOverLimit) => Excerpts = {TxtAtLimit \o <<".", ".", ".">>}

\* The fetch of unit k returned a value the classifier is called on.
FetchSucceeded(k) ==
  st[k] = "done" /\ ~TryRaises(bdc_data[k]) /\ ClassifierCalled(bdc_data[k])

\* C25: a unit of work of the pool performs the fetch and the
\* classification of its identifier: when the pool has finished the work
\* item of an identifier whose fetch succeeded, the identifier has been
\* classified.
C25_UnitFetchesAndClassifies ==
  \A k \in Units :
    FetchSucceeded(k) => \E n \in EntriesOf(k) : log[n].classified

\* What the code does: the classifier runs in the calling thread, for a
\* unit whose work item the pool has already finished, and holds no worker
\* slot; one reasoning-service call at most is in progress.
C25_ClassifiedByCallingThread ==
  /\ \A n \in 1..Len(log) : log[n].classified => FetchSucceeded(log[n].unit)
  /\ pc_main = "llm_call" =>
       /\ cur \in Units
       /\ FetchSucceeded(cur)
       /\ EntriesOf(cur) = {}
       /\ Running = Cardinality({k \in Units \ {cur} : st[k] \in {"sleeping", "requesting"}})
  /\ pc_main # "llm_call" => cur = 0

\* C26: results are emitted in completion order.  Whenever the collecting
\* loop takes up a future, it is the one that finished first among those
\* not yet taken up, so a unit that completes before another precedes it
\* in results and in the progress callback's calls.
C26_CompletionOrder ==
  [][i' = i + 1 => (order # <<>> /\ order' = Tail(order))]_vars

\* What as_completed guarantees: the futures that finish after it started
\* are yielded in the order they finish, and after every future it found
\* finished; among the latter the order is that of a set.
C26_OrderAmongLateCompletions ==
  /\ [][(i' = i + 1 /\ finished0 = {}) => (order # <<>> /\ order' = Tail(order))]_vars
  /\ [](pc_main = "collect" =>
          /\ SelectSeq(order, LAMBDA u : u \notin finished0) = waiterq
          /\ \A n \in 1..Len(order) : order[n] \in finished0 => n <= Cardinality(finished0))

\* C27: in every unit for a valid identifier the pacing delay comes before
\* the provider request: a request is sent only by a unit that is in its
\* delay, which ends with that step, and a valid identifier's unit enters
\* its delay, without a request sent, when a worker takes it.  The delay is
\* per unit: the units in their delay are bounded by max_workers alone.
C27_PacingBeforeRequest ==
  /\ [][\A k \in Units :
          /\ requests'[k] # requests[k] =>
               /\ st[k] = "sleeping" /\ st'[k] = "requesting"
               /\ requests'[k] = requests[k] + 1
          /\ (st[k] = "queued" /\ st'[k] # "queued" /\ IsValidCpf(cpfs[k])) =>
               st'[k] = "sleeping" /\ requests'[k] = 0]_vars
  /\ [](\A k \in Units :
          /\ st[k] = "sleeping" => requests[k] = 0 /\ IsValidCpf(cpfs[k])
          /\ st[k] = "requesting" => requests[k] = 1)

\* C27 witness: the delays of max_workers = 2 units overlap, no request
\* sent yet.
C27_Witness ==
  /\ max_workers = 2
  /\ Cardinality({k \in Units : st[k] = "sleeping"}) = 2
  /\ \A k \in Units : requests[k] = 0

\* The calls of the progress callback that raised.
RaisedCalls == {n \in 1..Len(cb_log) : cb_log[n].raised}

\* C28: when the progress callback raises while called for a unit,
\* process_batch still records exactly one result for that identifier: the
\* result appended before the call is not followed by an exception-status
\* entry for the same identifier, and the output is as long as the input.
C28_CallbackRaiseKeepsOneResult ==
  /\ \A n \in RaisedCalls :
       /\ Cardinality(EntriesOf(cb_log[n].unit)) = 1
       /\ \A j \in EntriesOf(cb_log[n].unit) : results[j].status.tag # "excecao"
  /\ (pc_main = "returned" /\ RaisedCalls # {}) => Len(results) = Len(cpfs)

\* What the code does: each call that raises leaves two entries for its
\* unit, the result passed to the callback and, right after it, an
\* exception-status entry with the same identifier; the output is longer
\* than the input by the number of calls that raised.
C28_RaiseAddsExceptionEntry ==
  /\ \A n \in RaisedCalls :
       LET k == cb_log[n].unit
           j == cb_log[n].out_len
       IN  /\ EntriesOf(k) = {j, j + 1}
           /\ results[j] = cb_log[n].result
           /\ results[j + 1].status.tag = "excecao"
           /\ results[j + 1].cpf = cpfs[k]
  /\ pc_main = "returned" => Len(results) = Len(cpfs) + Cardinality(RaisedCalls)

\* The three counts of a summary add up to its total.
CountsAddUp(stats) ==
  stats.total_absolvidos + stats.total_nao_absolvidos + stats.total_sem_dados
    = stats.total_processados

\* C29: in every result collection process_batch returns each outcome is
\* true, false or unknown, so the three counts of get_summary_stats add up
\* to total_processados.
C29_CountsPartitionResults ==
  cl_pc = "summary_llm" =>
    /\ \A n \in 1..Len(results) : results[n].foi_absolvido \in {"True", "False", "None"}
    /\ sum_stats.raised = ""
    /\ sum_stats.total_processados = Len(results)
    /\ CountsAddUp(sum_stats)

\* The keyword process_batch does return three-valued outcomes, and the
\* counts of its get_summary_stats add up.
C29_KeywordCountsAddUp ==
  /\ \A n \in 1..Len(results) : results[n].foi_absolvido \in {"True", "False", "None"}
  /\ pc_main = "returned" =>
       /\ get_summary_stats(results).total_processados = Len(results)
       /\ CountsAddUp(get_summary_stats(results))

\* In the contextual variant the counts never exceed the total, and fall
\* short of it by the results whose outcome is none of the three values.
C29_CountsFallShort ==
  cl_pc = "summary_llm" =>
    /\ sum_stats.raised = ""
    /\ sum_stats.total_absolvidos + sum_stats.total_nao_absolvidos + sum_stats.total_sem_dados
         = Len(results)
           - Cardinality({n \in 1..Len(results) :
                            results[n].foi_absolvido \notin {"True", "False", "None"}})

\* The provider request of unit k succeeded: a success status and a body
\* that parses as JSON.
RequestSucceeded(k) == replies[k] # NoReply /\ ~RequestFailed(replies[k])

\* The progress callback raised when called for unit k.
CallbackRaisedFor(k) == \E n \in RaisedCalls : cb_log[n].unit = k

\* C30: for every identifier whose provider request succeeds, the
\* classifier is called on the payload and the result carries neither an
\* api-error nor an exception status, whatever the payload's keys or shape.
C30_SuccessfulFetchClassified ==
  \A k \in Units :
    (RequestSucceeded(k) /\ EntriesOf(k) # {}) =>
      /\ \E n \in EntriesOf(k) : log[n].classified
      /\ \A n \in EntriesOf(k) :
           /\ results[n].status.tag # "erro_api"
           /\ results[n].status.tag = "excecao" => CallbackRaisedFor(k)

\* The same for the payloads that are JSON objects without a top-level
\* "error" key, which is what the code requires of them.
C30_ObjectWithoutErrorKeyClassified ==
  \A k \in Units :
    (RequestSucceeded(k) /\ EntriesOf(k) # {}
       /\ replies[k].body.t = "dict" /\ ~replies[k].body.hasError) =>
      /\ \E n \in EntriesOf(k) : log[n].classified
      /\ \A n \in EntriesOf(k) :
           /\ results[n].status.tag # "erro_api"
           /\ results[n].status.tag = "excecao" => CallbackRaisedFor(k)

====
